---------------------------- MODULE Spec2Model ----------------------------
(***************************************************************************)
(* Model of the connectivity core of the firezone client.                  *)
(*                                                                         *)
(* Specification Spec: the TURN `Allocation` of snownet                    *)
(* (rust/connlib/snownet/src/allocation.rs), driven through its public     *)
(* API: refresh, handle_input, handle_timeout, bind_channel, decapsulate,  *)
(* poll_transmit, poll_event.  Every handler is an operator from an        *)
(* allocation record to an allocation record, composed the way the Rust    *)
(* methods call each other.  Time is in seconds.  Instants handed to the   *)
(* API are drawn from the sparse set Times; durations are exact.           *)
(***************************************************************************)
EXTENDS Integers, Sequences, FiniteSets, TLC

VARIABLES
    last_srflx_candidate,       \* Option<Candidate>
    ip4_allocation,             \* Option<Candidate>
    ip6_allocation,             \* Option<Candidate>
    allocation_lifetime,        \* Option<(Instant, Duration)>
    buffered_transmits,         \* VecDeque<Transmit>
    events,                     \* VecDeque<CandidateEvent>
    backoff,                    \* ExponentialBackoff
    sent_requests,              \* HashMap<TransactionId, (Message, Instant, Duration)>
    channel_bindings,           \* ChannelBindings { inner, next_channel }
    buffered_channel_bindings,  \* RingBuffer<SocketAddr>
    last_now,                   \* Instant
    username, password, realm,  \* credentials
    nonce,                      \* Option<Nonce>
    wire,                       \* ids of in-flight requests the relay has been sent
    env,                        \* what the driver and the relay of this run do
    eventloop,                  \* Eventloop { tunnel, portal, connection_intents, log_upload_interval }
    client                      \* ClientState

vars == <<last_srflx_candidate, ip4_allocation, ip6_allocation, allocation_lifetime,
          buffered_transmits, events, backoff, sent_requests, channel_bindings,
          buffered_channel_bindings, last_now, username, password, realm, nonce,
          wire, env, eventloop, client>>

\* the variables of one Allocation and of its driver
allocation_vars ==
    <<last_srflx_candidate, ip4_allocation, ip6_allocation, allocation_lifetime,
      buffered_transmits, events, backoff, sent_requests, channel_bindings,
      buffered_channel_bindings, last_now, username, password, realm, nonce,
      wire, env>>

\* Option<T>: string-valued options use None; all others Nothing / Some(x).
None == "none"
Nothing == << >>
Some(x) == << x >>
Unwrap(o) == o[1]

-----------------------------------------------------------------------------
(* Bounds of the model.                                                    *)

\* sent_requests holds at most this many requests
MaxInFlight == 3
\* buffered_transmits holds at most this many datagrams before poll_transmit
MaxTransmits == 3
\* events holds at most this many candidate events before poll_event
MaxEvents == 3
\* the channel table holds at most this many channels
MaxChannels == 2
\* the portal channel hands out request ids up to this one
MaxRequestId == 3
\* the tunnel and the portal hold at most this many events that are ready
MaxReady == 1
\* a ticker asks for the details of a connection at most this many times
MaxAttempts == 2

-----------------------------------------------------------------------------
(* Program constants.                                                      *)

REQUEST_TIMEOUT == 1
CHANNEL_LIFETIME == 600
CHANNEL_REBIND_TIMEOUT == 300
FIRST_CHANNEL == 16384
LAST_CHANNEL == 20479
RING_CAPACITY == 100
ALLOCATION_LIFETIME == 600

\* The exponential backoff of crate::backoff: its interval grows by
\* BACKOFF_MULTIPLIER up to BACKOFF_MAX_INTERVAL and it gives up once
\* BACKOFF_MAX_ELAPSED has passed since the last reset.
BACKOFF_MULTIPLIER == 2
BACKOFF_MAX_INTERVAL == 8
BACKOFF_MAX_ELAPSED == 4

-----------------------------------------------------------------------------
(* The environment: addresses, credentials, instants.                      *)

RELAY == "RELAY"
OTHER_HOST == "OTHER_HOST"
PEER1 == "PEER1"
PEER2_IP4 == "PEER2_IP4"
PEER2_IP6 == "PEER2_IP6"
RELAY_ADDR_IP4 == "RELAY_ADDR_IP4"
RELAY_ADDR_IP6 == "RELAY_ADDR_IP6"

AllPeers == {PEER1, PEER2_IP4, PEER2_IP6}
is_ipv4(addr) == addr \in {PEER1, PEER2_IP4, RELAY_ADDR_IP4, RELAY}
is_ipv6(addr) == addr \in {PEER2_IP6, RELAY_ADDR_IP6}

Usernames == {"foobar"}
Passwords == {"baz"}
Realms == {"firezone"}

ALLOCATE == "ALLOCATE"
REFRESH == "REFRESH"
CHANNEL_BIND == "CHANNEL_BIND"
Methods == {ALLOCATE, REFRESH, CHANNEL_BIND}

Unauthorized == 401
StaleNonce == 438
AllocationMismatch == 437
ServerError == 500

\* One run is driven in one environment: the credentials the driver
\* refreshes with, the peers it binds channels to, the instants at which it
\* calls, and what the relay answers: the methods it answers at all, error
\* codes (or none), nonces, realms, addresses (mapped, relayed IPv4 and
\* relayed IPv6) and lifetimes.  The
\* node driving an allocation empties the queues of transmits and events
\* after every call (it drains) and is not late for a timeout the allocation
\* asked for (it is timely); a driver may also do only one of the two.
Environment(name, drains, timely, credentials, peers, times, answers, codes, nonces, realms, addresses, lifetimes) ==
    [ name |-> name, drains |-> drains, timely |-> timely,
      credentials |-> credentials, answers |-> answers,
      peers |-> peers, times |-> times, codes |-> codes, nonces |-> nonces,
      realms |-> realms, addresses |-> addresses, lifetimes |-> lifetimes ]

Credentials == Usernames \X Passwords \X Realms

Environments ==
    { Environment("authentication", TRUE, TRUE, {}, {PEER1}, {0, 1}, Methods,
                  { Some(Unauthorized), Some(StaleNonce) },
                  {"nonce1", "nonce2", None}, {"firezone", "other", None},
                  { << PEER1, RELAY_ADDR_IP4, None >> },
                  { Some(ALLOCATION_LIFETIME) }),
      Environment("channels", TRUE, TRUE, {}, {PEER1, PEER2_IP4, PEER2_IP6}, {0},
                  Methods,
                  { Some(ServerError), Nothing }, {None}, {None},
                  { << PEER1, RELAY_ADDR_IP4, None >>,
                    << PEER1, None, RELAY_ADDR_IP6 >>,
                    << PEER1, RELAY_ADDR_IP4, RELAY_ADDR_IP6 >>,
                    << None, RELAY_ADDR_IP4, None >>,
                    << PEER1, None, None >> },
                  { Some(ALLOCATION_LIFETIME) }),
      Environment("refreshes", TRUE, TRUE, Credentials, {},
                  {0, 1, 300, 301}, Methods,
                  { Some(ServerError), Some(StaleNonce) }, {None}, {None},
                  { << None, RELAY_ADDR_IP4, None >>,
                    << PEER1, RELAY_ADDR_IP4, RELAY_ADDR_IP6 >> },
                  { Some(ALLOCATION_LIFETIME) }),
      Environment("lifetimes", TRUE, TRUE, {}, {PEER1},
                  {0, 1, 300, 600, 900}, Methods,
                  { Some(AllocationMismatch) }, {None}, {None},
                  { << None, RELAY_ADDR_IP4, None >> },
                  { Some(ALLOCATION_LIFETIME), Nothing }),
      Environment("late", TRUE, FALSE, {}, {PEER1, PEER2_IP4},
                  {0, 300, 1200}, {ALLOCATE, REFRESH}, {}, {None}, {None},
                  { << PEER1, RELAY_ADDR_IP4, None >> },
                  { Some(ALLOCATION_LIFETIME) }),
      Environment("lazy", FALSE, TRUE, Credentials, {},
                  {0, 600, 900}, Methods, {}, {None}, {None},
                  { << PEER1, RELAY_ADDR_IP4, None >> },
                  { Some(ALLOCATION_LIFETIME) }) }

Max(x, y) == IF x >= y THEN x ELSE y
Min(x, y) == IF x <= y THEN x ELSE y
\* Instant::duration_since saturates at zero
duration_since(now, earlier) == Max(now - earlier, 0)

SeqToSet(s) == {s[i] : i \in 1..Len(s)}

-----------------------------------------------------------------------------
(* The allocation as one record; the handlers below map records to records. *)

Self ==
    [ last_srflx_candidate |-> last_srflx_candidate,
      ip4_allocation |-> ip4_allocation,
      ip6_allocation |-> ip6_allocation,
      allocation_lifetime |-> allocation_lifetime,
      buffered_transmits |-> buffered_transmits,
      events |-> events,
      backoff |-> backoff,
      sent_requests |-> sent_requests,
      channel_bindings |-> channel_bindings,
      buffered_channel_bindings |-> buffered_channel_bindings,
      last_now |-> last_now,
      username |-> username,
      password |-> password,
      realm |-> realm,
      nonce |-> nonce,
      wire |-> wire ]

-----------------------------------------------------------------------------
(* crate::backoff::ExponentialBackoff with a manual clock.                 *)

backoff_new(now, initial_interval) ==
    [ current_interval |-> initial_interval, start_time |-> now, now |-> now ]

backoff_reset(b) ==
    [ b EXCEPT !.current_interval = REQUEST_TIMEOUT, !.start_time = b.now ]

\* next_backoff: << Option<Duration>, the backoff afterwards >>
next_backoff(b) ==
    LET elapsed == b.now - b.start_time
        interval == b.current_interval
        grown == [ b EXCEPT !.current_interval =
                       Min(interval * BACKOFF_MULTIPLIER, BACKOFF_MAX_INTERVAL) ]
    IN  IF elapsed > BACKOFF_MAX_ELAPSED
        THEN << Nothing, b >>
        ELSE IF elapsed + interval <= BACKOFF_MAX_ELAPSED
             THEN << Some(interval), grown >>
             ELSE << Nothing, grown >>

-----------------------------------------------------------------------------
(* Requests.  A message keeps the attributes the allocation reads back:    *)
(* method, XOR-PEER-ADDRESS, CHANNEL-NUMBER, USERNAME, REALM, NONCE and    *)
(* the password its MESSAGE-INTEGRITY was computed with.                   *)

make_allocate_request ==
    [ method |-> ALLOCATE, peer |-> None, channel |-> Nothing,
      username |-> None, realm |-> None, nonce |-> None, integrity |-> None ]

make_refresh_request ==
    [ method |-> REFRESH, peer |-> None, channel |-> Nothing,
      username |-> None, realm |-> None, nonce |-> None, integrity |-> None ]

make_channel_bind_request(target, channel) ==
    [ method |-> CHANNEL_BIND, peer |-> target, channel |-> Some(channel),
      username |-> None, realm |-> None, nonce |-> None, integrity |-> None ]

\* authenticate: strip NONCE, MESSAGE-INTEGRITY, REALM, USERNAME; add the
\* current ones.  The fresh transaction id is added by authenticate_and_queue.
authenticate(a, message) ==
    [ message EXCEPT !.username = a.username,
                     !.realm = a.realm,
                     !.nonce = a.nonce,
                     !.integrity = a.password ]

SentIds(a) == { r.id : r \in a.sent_requests }
TransmitIds(a) == { a.buffered_transmits[i].id : i \in 1..Len(a.buffered_transmits) }
UsedIds(a) == SentIds(a) \cup TransmitIds(a) \cup a.wire

\* TransactionId::new(random()): an id no message known to either side has.
\* Ids are only ever compared for equality, so any unused number stands for
\* the random one.
FreshId(a) ==
    LET used == UsedIds(a) \cup {0}
    IN  1 + CHOOSE n \in used : \A m \in used : m <= n

\* The same allocation with its transaction ids renamed to 1..n in the
\* order they were drawn; the id of a transmit whose request is gone
\* becomes 0.  No behaviour depends on the names.
RenameIds(a) ==
    LET live == SentIds(a)
        name(id) == IF id \in live THEN Cardinality({ j \in live : j <= id }) ELSE 0
    IN  [ a EXCEPT
            !.sent_requests = { [ r EXCEPT !.id = name(r.id) ] : r \in a.sent_requests },
            !.buffered_transmits =
                [ i \in 1..Len(a.buffered_transmits) |->
                    [ a.buffered_transmits[i] EXCEPT !.id = name(a.buffered_transmits[i].id) ] ],
            !.wire = { name(id) : id \in a.wire \cap live } ]

Queued(a) == next_backoff(a.backoff)[1] # Nothing

authenticate_and_queue(a, message) ==
    LET nb == next_backoff(a.backoff)
        id == FreshId(a)
        authenticated_message == authenticate(a, message)
    IN  IF nb[1] = Nothing
        THEN [ a EXCEPT !.backoff = nb[2] ]
        ELSE [ a EXCEPT
                 !.backoff = nb[2],
                 !.sent_requests = @ \cup
                     { [ id |-> id, request |-> authenticated_message,
                         sent_at |-> a.last_now, backoff |-> Unwrap(nb[1]) ] },
                 !.buffered_transmits = Append(@,
                     [ id |-> id, dst |-> RELAY, payload |-> authenticated_message ]) ]

update_now(a, now) ==
    IF now <= a.last_now
    THEN a
    ELSE LET b == [ a.backoff EXCEPT !.now = now ]
         IN  [ a EXCEPT !.last_now = now,
                        !.backoff = IF a.sent_requests = {} THEN backoff_reset(b) ELSE b ]

-----------------------------------------------------------------------------
(* Queries.                                                                *)

has_allocation(a) == a.ip4_allocation # None \/ a.ip6_allocation # None

\* a family check that only asks for an allocation
can_relay_to_any_family(a, socket) == has_allocation(a)

can_relay_to(a, socket) ==
    IF is_ipv4(socket) THEN a.ip4_allocation # None ELSE a.ip6_allocation # None

channel_binding_in_flight_by_number(a, channel) ==
    \E r \in a.sent_requests :
        r.request.method = CHANNEL_BIND /\ r.request.channel = Some(channel)

\* a check that never finds a binding in flight
no_channel_binding_in_flight_by_peer(a, peer) == FALSE

channel_binding_in_flight_by_peer(a, peer) ==
    \/ \E r \in a.sent_requests :
           r.request.method = CHANNEL_BIND /\ r.request.peer = peer
    \/ \E i \in 1..Len(a.buffered_channel_bindings) :
           a.buffered_channel_bindings[i] = peer

allocate_in_flight(a) == \E r \in a.sent_requests : r.request.method = ALLOCATE

\* a refresh that is never seen in flight
refresh_never_in_flight(a) == FALSE

refresh_in_flight(a) == \E r \in a.sent_requests : r.request.method = REFRESH

\* a refresh that is due only when the allocation expires
refresh_allocation_at_expiry(a) ==
    IF a.allocation_lifetime = Nothing THEN Nothing
    ELSE Some(Unwrap(a.allocation_lifetime).received_at
              + Unwrap(a.allocation_lifetime).lifetime)

refresh_allocation_at(a) ==
    IF a.allocation_lifetime = Nothing THEN Nothing
    ELSE LET l == Unwrap(a.allocation_lifetime)
         IN  Some(l.received_at + (l.lifetime \div 2))

allocation_expires_at(a) ==
    IF a.allocation_lifetime = Nothing THEN Nothing
    ELSE LET l == Unwrap(a.allocation_lifetime)
         IN  Some(l.received_at + l.lifetime)

\* utils::earliest over Option<Instant>
earliest(x, y) ==
    IF x = Nothing THEN y
    ELSE IF y = Nothing THEN x
    ELSE Some(Min(Unwrap(x), Unwrap(y)))

RECURSIVE EarliestOf(_)
EarliestOf(S) ==
    IF S = {} THEN Nothing
    ELSE LET x == CHOOSE y \in S : TRUE IN earliest(Some(x), EarliestOf(S \ {x}))

poll_timeout(a) ==
    earliest(IF ~refresh_in_flight(a) THEN refresh_allocation_at(a) ELSE Nothing,
             EarliestOf({ r.sent_at + r.backoff : r \in a.sent_requests }))

\* a check that never finds the allocation suspended
never_suspended(a) == FALSE

is_suspended(a) ==
    /\ ~has_allocation(a)
    /\ a.sent_requests = {}
    /\ a.buffered_transmits = << >>
    /\ poll_timeout(a) = Nothing

-----------------------------------------------------------------------------
(* Channel: one entry of ChannelBindings::inner.                           *)

age(channel, now) == duration_since(now, channel.bound_at)

no_activity(channel) == channel.last_received = channel.bound_at

\* a channel that still counts as connected at the end of its lifetime
connected_to_peer_through_lifetime(channel, peer, now) ==
    channel.peer = peer /\ age(channel, now) <= CHANNEL_LIFETIME /\ channel.bound

connected_to_peer(channel, peer, now) ==
    channel.peer = peer /\ age(channel, now) < CHANNEL_LIFETIME /\ channel.bound

can_rebind(channel, now) ==
    /\ no_activity(channel)
    /\ age(channel, now) >= CHANNEL_LIFETIME + CHANNEL_REBIND_TIMEOUT

needs_refresh(channel, now) ==
    IF age(channel, now) < CHANNEL_LIFETIME \div 2 THEN FALSE
    ELSE IF no_activity(channel) THEN FALSE
    ELSE TRUE

-----------------------------------------------------------------------------
(* ChannelBindings { inner, next_channel }.                                *)

\* inner is the set of its entries, each a Channel with its number
ChannelBindings_default == [ inner |-> {}, next_channel |-> FIRST_CHANNEL ]

Numbers(inner) == { c.number : c \in inner }
Get(inner, n) == CHOOSE c \in inner : c.number = n
Remove(inner, n) == { c \in inner : c.number # n }

\* The scan of new_channel_to_peer from channel number n: the free or
\* rebindable number it stops at, or Nothing with next_channel left at the
\* number that ended the scan.  << Option<u16>, next_channel >>
RECURSIVE scan_channels(_, _, _)
scan_channels(inner, n, now) ==
    IF n \notin Numbers(inner) \/ can_rebind(Get(inner, n), now)
    THEN << Some(n), n >>
    ELSE IF n + 1 >= LAST_CHANNEL
         THEN << Nothing, n + 1 >>
         ELSE scan_channels(inner, n + 1, now)

\* new_channel_to_peer: << Option<u16>, the bindings afterwards >>
new_channel_to_peer(cb, peer, now) ==
    LET start == IF cb.next_channel = LAST_CHANNEL THEN FIRST_CHANNEL ELSE cb.next_channel
        found == scan_channels(cb.inner, start, now)
    IN  IF found[1] = Nothing
        THEN << Nothing, [ cb EXCEPT !.next_channel = found[2] ] >>
        ELSE LET c == Unwrap(found[1])
                 fresh == [ number |-> c, peer |-> peer, bound |-> FALSE,
                            bound_at |-> now, last_received |-> now ]
             IN  << found[1],
                    [ inner |-> Remove(cb.inner, c) \cup {fresh},
                      next_channel |-> found[2] ] >>

\* channels_to_refresh, as the set of (number, peer) it yields
channels_to_refresh(a, now) ==
    { << c.number, c.peer >> :
        c \in { d \in a.channel_bindings.inner :
                  /\ needs_refresh(d, now)
                  /\ ~channel_binding_in_flight_by_number(a, d.number) } }

\* channel_to_peer: Option<u16>
channel_to_peer(cb, peer, now) ==
    LET found == { c \in cb.inner : connected_to_peer(c, peer, now) }
    IN  IF found = {} THEN Nothing ELSE Some((CHOOSE c \in found : TRUE).number)

handle_failed_binding(cb, c) ==
    [ cb EXCEPT !.inner = Remove(@, c) ]

set_confirmed(cb, c, now) ==
    IF c \notin Numbers(cb.inner) THEN cb
    ELSE [ cb EXCEPT !.inner = Remove(@, c) \cup
             { [ Get(cb.inner, c) EXCEPT !.bound = TRUE, !.bound_at = now,
                                         !.last_received = now ] } ]

\* try_decode of a channel-data message for channel_number:
\* << Option<peer>, the bindings afterwards >>
try_decode(cb, channel_number, now) ==
    IF channel_number \notin Numbers(cb.inner) THEN << None, cb >>
    ELSE LET channel == Get(cb.inner, channel_number)
         IN  IF ~channel.bound THEN << None, cb >>
             ELSE << channel.peer,
                     [ cb EXCEPT !.inner = Remove(@, channel_number) \cup
                         { [ channel EXCEPT !.last_received = now ] } ] >>

-----------------------------------------------------------------------------
(* crate::ringbuffer::RingBuffer<SocketAddr>.                              *)

ring_push(buffer, item) ==
    IF Len(buffer) = RING_CAPACITY THEN Append(Tail(buffer), item)
    ELSE Append(buffer, item)

\* a pop that takes the oldest item
ring_pop_oldest(buffer) ==
    IF buffer = << >> THEN << None, buffer >>
    ELSE << Head(buffer), Tail(buffer) >>

\* pop takes the most recently pushed item
ring_pop(buffer) ==
    IF buffer = << >> THEN << None, buffer >>
    ELSE << buffer[Len(buffer)], SubSeq(buffer, 1, Len(buffer) - 1) >>

-----------------------------------------------------------------------------
(* Allocation: candidates.                                                 *)

New(candidate) == [ kind |-> "New", candidate |-> candidate ]
Invalid(candidate) == [ kind |-> "Invalid", candidate |-> candidate ]

\* an invalidation that reports the IPv6 candidate before the IPv4 one
invalidate_allocation_ip6_first(a) ==
    LET e6 == IF a.ip6_allocation # None
              THEN Append(a.events, Invalid(a.ip6_allocation)) ELSE a.events
        e4 == IF a.ip4_allocation # None
              THEN Append(e6, Invalid(a.ip4_allocation)) ELSE e6
    IN  [ a EXCEPT !.ip4_allocation = None,
                   !.ip6_allocation = None,
                   !.events = e4,
                   !.channel_bindings = ChannelBindings_default,
                   !.allocation_lifetime = Nothing,
                   !.sent_requests = {} ]

\* an invalidation that forgets the requests in flight
invalidate_allocation_keeping_requests(a) ==
    LET e4 == IF a.ip4_allocation # None
              THEN Append(a.events, Invalid(a.ip4_allocation)) ELSE a.events
        e6 == IF a.ip6_allocation # None
              THEN Append(e4, Invalid(a.ip6_allocation)) ELSE e4
    IN  [ a EXCEPT !.ip4_allocation = None,
                   !.ip6_allocation = None,
                   !.events = e6,
                   !.channel_bindings = ChannelBindings_default,
                   !.allocation_lifetime = Nothing ]

\* an invalidation that keeps the channels
invalidate_allocation_keeping_channels(a) ==
    LET e4 == IF a.ip4_allocation # None
              THEN Append(a.events, Invalid(a.ip4_allocation)) ELSE a.events
        e6 == IF a.ip6_allocation # None
              THEN Append(e4, Invalid(a.ip6_allocation)) ELSE e4
    IN  [ a EXCEPT !.ip4_allocation = None,
                   !.ip6_allocation = None,
                   !.events = e6,
                   !.allocation_lifetime = Nothing,
                   !.sent_requests = {} ]

\* an invalidation that announces nothing
invalidate_allocation_unannounced(a) ==
    [ a EXCEPT !.ip4_allocation = None,
               !.ip6_allocation = None,
               !.channel_bindings = ChannelBindings_default,
               !.allocation_lifetime = Nothing,
               !.sent_requests = {} ]

invalidate_allocation(a) ==
    LET e4 == IF a.ip4_allocation # None
              THEN Append(a.events, Invalid(a.ip4_allocation)) ELSE a.events
        e6 == IF a.ip6_allocation # None
              THEN Append(e4, Invalid(a.ip6_allocation)) ELSE e4
    IN  [ a EXCEPT !.ip4_allocation = None,
                   !.ip6_allocation = None,
                   !.events = e6,
                   !.channel_bindings = ChannelBindings_default,
                   !.allocation_lifetime = Nothing,
                   !.sent_requests = {} ]

\* an update that announces a candidate the allocation holds already
update_candidate_announcing_again(maybe_new, maybe_current, evs) ==
    IF maybe_new # None
    THEN << maybe_new, Append(evs, New(maybe_new)) >>
    ELSE << maybe_current, evs >>

\* update_candidate: << the current candidate afterwards, events afterwards >>
update_candidate(maybe_new, maybe_current, evs) ==
    IF maybe_new # None /\ maybe_new # maybe_current
    THEN << maybe_new, Append(evs, New(maybe_new)) >>
    ELSE << maybe_current, evs >>

-----------------------------------------------------------------------------
(* Allocation::bind_channel.                                               *)

bind_channel(a, peer, now) ==
    IF is_suspended(a) THEN a
    ELSE LET a1 == update_now(a, now)
         IN  IF channel_to_peer(a1.channel_bindings, peer, now) # Nothing THEN a1
             ELSE IF channel_binding_in_flight_by_peer(a1, peer) THEN a1
             ELSE IF ~has_allocation(a1)
                  THEN [ a1 EXCEPT !.buffered_channel_bindings = ring_push(@, peer) ]
             ELSE IF ~can_relay_to(a1, peer) THEN a1
             ELSE LET new == new_channel_to_peer(a1.channel_bindings, peer, now)
                      a2 == [ a1 EXCEPT !.channel_bindings = new[2] ]
                  IN  IF new[1] = Nothing THEN a2
                      ELSE authenticate_and_queue(a2,
                               make_channel_bind_request(peer, Unwrap(new[1])))

\* while let Some(peer) = self.buffered_channel_bindings.pop() { bind_channel }
RECURSIVE drain_buffered_channel_bindings(_, _)
drain_buffered_channel_bindings(a, now) ==
    LET popped == ring_pop(a.buffered_channel_bindings)
    IN  IF popped[1] = None THEN a
        ELSE drain_buffered_channel_bindings(
                 bind_channel([ a EXCEPT !.buffered_channel_bindings = popped[2] ],
                              popped[1], now),
                 now)

-----------------------------------------------------------------------------
(* Allocation::refresh.                                                    *)

refresh(a, new_username, new_password, new_realm, now) ==
    LET a1 == [ update_now(a, now) EXCEPT !.username = new_username,
                                          !.realm = new_realm,
                                          !.password = new_password ]
    IN  IF ~has_allocation(a1) /\ allocate_in_flight(a1) THEN a1
        ELSE IF is_suspended(a1) THEN authenticate_and_queue(a1, make_allocate_request)
        ELSE authenticate_and_queue(a1, make_refresh_request)

-----------------------------------------------------------------------------
(* Allocation::handle_input.  A packet is either not a STUN message or a   *)
(* decoded message: id, class, method, ERROR-CODE, NONCE, REALM, LIFETIME, *)
(* XOR-MAPPED-ADDRESS, first IPv4 and first IPv6 XOR-RELAY-ADDRESS.        *)

SuccessResponse == "SuccessResponse"
ErrorResponse == "ErrorResponse"

Message(id, class, method, error, n, r, lifetime, mapped, relay4, relay6) ==
    [ stun |-> TRUE, id |-> id, class |-> class, method |-> method, error |-> error,
      nonce |-> n, realm |-> r, lifetime |-> lifetime, mapped |-> mapped,
      relay4 |-> relay4, relay6 |-> relay6 ]

NotStun == [ Message(0, ErrorResponse, ALLOCATE, Nothing, None, None, Nothing,
                     None, None, None) EXCEPT !.stun = FALSE ]

\* an error branch that re-authenticates whether or not the request
\* carried a nonce
handle_error_response_always_retrying(a, original_request, message) ==
    LET code == Unwrap(message.error)
    IN  IF code = Unauthorized \/ code = StaleNonce
        THEN LET a1 == IF message.nonce # None
                       THEN [ a EXCEPT !.nonce = message.nonce ] ELSE a
             IN  IF message.realm # None /\ message.realm # a1.realm THEN a1
                 ELSE authenticate_and_queue(a1, original_request)
        ELSE a

\* an error branch that keeps the deferred channel bindings when an
\* ALLOCATE fails
handle_error_response_keeping_deferred(a, original_request, message) ==
    LET code == Unwrap(message.error)
    IN  IF code = Unauthorized /\ original_request.nonce # None THEN a
        ELSE IF code = Unauthorized \/ code = StaleNonce
        THEN LET a1 == IF message.nonce # None
                       THEN [ a EXCEPT !.nonce = message.nonce ] ELSE a
             IN  IF message.realm # None /\ message.realm # a1.realm THEN a1
                 ELSE authenticate_and_queue(a1, original_request)
        ELSE IF message.method = ALLOCATE
        THEN a
        ELSE IF message.method = CHANNEL_BIND
        THEN IF original_request.channel = Nothing THEN a
             ELSE [ a EXCEPT !.channel_bindings =
                      handle_failed_binding(@, Unwrap(original_request.channel)) ]
        ELSE IF message.method = REFRESH
        THEN authenticate_and_queue(invalidate_allocation(a), make_allocate_request)
        ELSE a

\* The error branch of handle_input, after the request was taken out of
\* sent_requests and the backoff was reset.
handle_error_response(a, original_request, message) ==
    LET code == Unwrap(message.error)
    IN  IF code = Unauthorized /\ original_request.nonce # None THEN a
        ELSE IF code = Unauthorized \/ code = StaleNonce
        THEN LET a1 == IF message.nonce # None
                       THEN [ a EXCEPT !.nonce = message.nonce ] ELSE a
             IN  IF message.realm # None /\ message.realm # a1.realm THEN a1
                 ELSE authenticate_and_queue(a1, original_request)
        ELSE IF message.method = ALLOCATE
        THEN [ a EXCEPT !.buffered_channel_bindings = << >> ]
        ELSE IF message.method = CHANNEL_BIND
        THEN IF original_request.channel = Nothing THEN a
             ELSE [ a EXCEPT !.channel_bindings =
                      handle_failed_binding(@, Unwrap(original_request.channel)) ]
        ELSE IF message.method = REFRESH
        THEN authenticate_and_queue(invalidate_allocation(a), make_allocate_request)
        ELSE a

\* The success branch of handle_input.
handle_success_response(a, original_request, message, now) ==
    IF message.method = ALLOCATE
    THEN IF message.lifetime = Nothing THEN a
         ELSE IF message.relay4 = None /\ message.relay6 = None THEN a
         ELSE LET srflx == update_candidate(message.mapped, a.last_srflx_candidate, a.events)
                  ip4 == update_candidate(message.relay4, a.ip4_allocation, srflx[2])
                  ip6 == update_candidate(message.relay6, a.ip6_allocation, ip4[2])
                  a1 == [ a EXCEPT
                            !.allocation_lifetime =
                                Some([ received_at |-> now,
                                       lifetime |-> Unwrap(message.lifetime) ]),
                            !.last_srflx_candidate = srflx[1],
                            !.ip4_allocation = ip4[1],
                            !.ip6_allocation = ip6[1],
                            !.events = ip6[2] ]
              IN  drain_buffered_channel_bindings(a1, now)
    ELSE IF message.method = REFRESH
    THEN IF message.lifetime = Nothing THEN a
         ELSE [ a EXCEPT !.allocation_lifetime =
                  Some([ received_at |-> now, lifetime |-> Unwrap(message.lifetime) ]) ]
    ELSE IF message.method = CHANNEL_BIND
    THEN IF original_request.channel = Nothing THEN a
         ELSE [ a EXCEPT !.channel_bindings =
                  set_confirmed(@, Unwrap(original_request.channel), now) ]
    ELSE a

\* an allocation that takes the answer to a request from any sender
handle_input_from_anyone(a, from, local, packet, now) ==
    LET a1 == update_now(a, now)
    IN  IF ~packet.stun THEN << FALSE, a1 >>
        ELSE IF packet.id \notin SentIds(a1) THEN << FALSE, a1 >>
        ELSE LET entry == CHOOSE r \in a1.sent_requests : r.id = packet.id
                 a2 == [ a1 EXCEPT !.sent_requests = @ \ {entry},
                                   !.backoff = backoff_reset(@) ]
             IN  IF packet.error # Nothing
                 THEN << TRUE, handle_error_response(a2, entry.request, packet) >>
                 ELSE IF packet.class # SuccessResponse THEN << TRUE, a2 >>
                 ELSE << TRUE, handle_success_response(a2, entry.request, packet, now) >>

\* handle_input: << the value returned, the allocation afterwards >>
handle_input(a, from, local, packet, now) ==
    LET a1 == update_now(a, now)
    IN  IF from # RELAY THEN << FALSE, a1 >>
        ELSE IF ~packet.stun THEN << FALSE, a1 >>
        ELSE IF packet.id \notin SentIds(a1) THEN << FALSE, a1 >>
        ELSE LET entry == CHOOSE r \in a1.sent_requests : r.id = packet.id
                 a2 == [ a1 EXCEPT !.sent_requests = @ \ {entry},
                                   !.backoff = backoff_reset(@) ]
             IN  IF packet.error # Nothing
                 THEN << TRUE, handle_error_response(a2, entry.request, packet) >>
                 ELSE IF packet.class # SuccessResponse THEN << TRUE, a2 >>
                 ELSE << TRUE, handle_success_response(a2, entry.request, packet, now) >>

-----------------------------------------------------------------------------
(* Allocation::decapsulate of a channel-data message for channel_number.   *)

decapsulate(a, from, channel_number, now) ==
    IF from # RELAY THEN a
    ELSE [ a EXCEPT !.channel_bindings = try_decode(@, channel_number, now)[2] ]

-----------------------------------------------------------------------------
(* crate::channel_data: the framing of RFC 5766, section 11.4.  A message  *)
(* is a sequence of bytes: the channel number and the length of the        *)
(* payload, two bytes each, followed by the payload.                       *)

\* the header is four bytes
HEADER_LEN == 4

u16_to_be_bytes(n) == << n \div 256, n % 256 >>
u16_from_be_bytes(hi, lo) == hi * 256 + lo

channel_data_encode(channel, data) ==
    u16_to_be_bytes(channel) \o u16_to_be_bytes(Len(data)) \o data

\* decode: Option<(channel number, payload)>
channel_data_decode(packet) ==
    IF Len(packet) < HEADER_LEN THEN Nothing
    ELSE LET channel == u16_from_be_bytes(packet[1], packet[2])
             length == u16_from_be_bytes(packet[3], packet[4])
         IN  IF channel < 16384 \/ channel > 32767 THEN Nothing
             ELSE IF Len(packet) < HEADER_LEN + length THEN Nothing
             ELSE Some(<< channel, SubSeq(packet, HEADER_LEN + 1, HEADER_LEN + length) >>)

\* ChannelBindings::try_decode of the bytes of a datagram:
\* << Option<(peer, payload)>, the bindings afterwards >>
try_decode_packet(cb, packet, now) ==
    LET decoded == channel_data_decode(packet)
    IN  IF decoded = Nothing THEN << Nothing, cb >>
        ELSE LET found == try_decode(cb, Unwrap(decoded)[1], now)
             IN  IF found[1] = None THEN << Nothing, cb >>
                 ELSE << Some(<< found[1], Unwrap(decoded)[2] >>), found[2] >>

-----------------------------------------------------------------------------
(* Allocation::encode_to_vec: Option<Vec<u8>>                              *)

encode_to_vec(a, peer, packet, now) ==
    LET channel_number == channel_to_peer(a.channel_bindings, peer, now)
    IN  IF channel_number = Nothing THEN Nothing
        ELSE Some(channel_data_encode(Unwrap(channel_number), packet))

-----------------------------------------------------------------------------
(* Allocation::handle_timeout.  sent_requests and the channel table are    *)
(* hash maps: the order in which timed-out requests are re-sent and        *)
(* channels are refreshed is any order.                                    *)

Perms(S) ==
    { f \in [ 1..Cardinality(S) -> S ] : \A i, j \in DOMAIN f : f[i] = f[j] => i = j }

\* an allocation that expires only after its lifetime has passed
expire_allocation_late(a, now) ==
    LET expires_at == allocation_expires_at(a)
    IN  IF expires_at # Nothing /\ now > Unwrap(expires_at)
        THEN invalidate_allocation(a)
        ELSE a

expire_allocation(a, now) ==
    LET expires_at == allocation_expires_at(a)
    IN  IF expires_at # Nothing /\ now >= Unwrap(expires_at)
        THEN invalidate_allocation(a)
        ELSE a

\* a request times out only after its deadline has passed
timed_out_requests_late(a, now) ==
    { r \in a.sent_requests : duration_since(now, r.sent_at) > r.backoff }

timed_out_requests(a, now) ==
    { r \in a.sent_requests : duration_since(now, r.sent_at) >= r.backoff }

RECURSIVE resend_timed_out(_, _)
resend_timed_out(a, order) ==
    IF order = << >> THEN a
    ELSE resend_timed_out(
             authenticate_and_queue([ a EXCEPT !.sent_requests = @ \ {Head(order)} ],
                                    Head(order).request),
             Tail(order))

refresh_due(a, now) ==
    LET refresh_at == refresh_allocation_at(a)
    IN  /\ refresh_at # Nothing
        /\ now >= Unwrap(refresh_at)
        /\ ~refresh_in_flight(a)

\* a due refresh that keeps the allocation when it cannot be queued
refresh_if_due_keeping_allocation(a, now) ==
    IF refresh_due(a, now)
    THEN authenticate_and_queue(a, make_refresh_request)
    ELSE a

refresh_if_due(a, now) ==
    IF refresh_due(a, now)
    THEN LET queued == Queued(a)
             a1 == authenticate_and_queue(a, make_refresh_request)
         IN  IF ~queued THEN invalidate_allocation(a1) ELSE a1
    ELSE a

RECURSIVE queue_channel_refreshes(_, _)
queue_channel_refreshes(a, order) ==
    IF order = << >> THEN a
    ELSE queue_channel_refreshes(
             authenticate_and_queue(a,
                 make_channel_bind_request(Head(order)[2], Head(order)[1])),
             Tail(order))

\* handle_timeout: the set of allocations it can leave, one per iteration order
handle_timeout(a, now) ==
    LET a1 == expire_allocation(update_now(a, now), now)
        refreshed == { refresh_if_due(resend_timed_out(a1, order), now) :
                         order \in Perms(timed_out_requests(a1, now)) }
    IN  UNION { { queue_channel_refreshes(a3, order) :
                    order \in Perms(channels_to_refresh(a3, now)) } :
                a3 \in refreshed }

-----------------------------------------------------------------------------
(* Allocation::poll_transmit, Allocation::poll_event.                      *)

\* poll_transmit hands the datagram to the network: the relay can answer a
\* request from then on.
poll_transmit(a) ==
    LET transmit == Head(a.buffered_transmits)
    IN  [ a EXCEPT !.buffered_transmits = Tail(@),
                   !.wire = IF transmit.id \in SentIds(a) THEN @ \cup {transmit.id} ELSE @ ]

poll_event(a) == [ a EXCEPT !.events = Tail(@) ]

-----------------------------------------------------------------------------
(* Allocation::new.                                                        *)

Allocation_new(new_username, new_password, new_realm, now) ==
    authenticate_and_queue(
        [ last_srflx_candidate |-> None,
          ip4_allocation |-> None,
          ip6_allocation |-> None,
          allocation_lifetime |-> Nothing,
          buffered_transmits |-> << >>,
          events |-> << >>,
          backoff |-> backoff_new(now, REQUEST_TIMEOUT),
          sent_requests |-> {},
          channel_bindings |-> ChannelBindings_default,
          buffered_channel_bindings |-> << >>,
          last_now |-> now,
          username |-> new_username,
          password |-> new_password,
          realm |-> new_realm,
          nonce |-> None,
          wire |-> {} ],
        make_allocate_request)

-----------------------------------------------------------------------------
(* The state machine.                                                      *)

\* Callers read the clock: the instants they pass never decrease.
Instants == { now \in env.times : now >= last_now }
Peers == env.peers

Drained ==
    IF env.drains THEN buffered_transmits = << >> /\ events = << >> ELSE TRUE

Timely(now) ==
    IF env.timely /\ poll_timeout(Self) # Nothing
    THEN now <= Unwrap(poll_timeout(Self))
    ELSE TRUE

WithinBounds(a) ==
    /\ Cardinality(a.sent_requests) <= MaxInFlight
    /\ Len(a.buffered_transmits) <= MaxTransmits
    /\ Len(a.events) <= MaxEvents
    /\ Cardinality(a.channel_bindings.inner) <= MaxChannels
    /\ a.channel_bindings.next_channel < FIRST_CHANNEL + MaxChannels

Commit(b) ==
    LET a == RenameIds(b)
    IN  /\ WithinBounds(b)
        /\ last_srflx_candidate' = a.last_srflx_candidate
        /\ ip4_allocation' = a.ip4_allocation
        /\ ip6_allocation' = a.ip6_allocation
        /\ allocation_lifetime' = a.allocation_lifetime
        /\ buffered_transmits' = a.buffered_transmits
        /\ events' = a.events
        /\ backoff' = a.backoff
        /\ sent_requests' = a.sent_requests
        /\ channel_bindings' = a.channel_bindings
        /\ buffered_channel_bindings' = a.buffered_channel_bindings
        /\ last_now' = a.last_now
        /\ username' = a.username
        /\ password' = a.password
        /\ realm' = a.realm
        /\ nonce' = a.nonce
        /\ wire' = a.wire
        /\ UNCHANGED <<env, eventloop, client>>

-----------------------------------------------------------------------------
(* SentConnectionIntents { inner: HashMap<OutboundRequestId, ResourceId> } *)
(* of rust/connlib/clients/shared/src/eventloop.rs.  The map is the set of *)
(* its entries.                                                            *)

Resources == {"resource1", "resource2"}

Intent(req, resource) == [ req |-> req, resource |-> resource ]

SentConnectionIntents_default == {}

register_new_intent(inner, id, resource) ==
    { e \in inner : e.req # id } \cup { Intent(id, resource) }

\* a check that refuses a reply only when an older intent is recorded
handle_connection_details_received_refusing_newer(inner, reference, r) ==
    LET has_more_recent_intent ==
            \E e \in inner : e.req < reference /\ e.resource = r
    IN  IF has_more_recent_intent THEN << FALSE, inner >>
        ELSE << TRUE, { e \in inner : e.resource # r } >>

\* an acceptance that removes only the intent that was answered
handle_connection_details_received_keeping_others(inner, reference, r) ==
    LET has_more_recent_intent ==
            \E e \in inner : e.req > reference /\ e.resource = r
    IN  IF has_more_recent_intent THEN << FALSE, inner >>
        ELSE << TRUE, { e \in inner : e.req # reference } >>

\* handle_connection_details_received: << accepted, inner afterwards >>
handle_connection_details_received(inner, reference, r) ==
    LET has_more_recent_intent ==
            \E e \in inner : e.req > reference /\ e.resource = r
    IN  IF has_more_recent_intent THEN << FALSE, inner >>
        ELSE << TRUE, { e \in inner : e.resource # r } >>

\* the debug_assert! of handle_connection_details_received: the intent that
\* is accepted is recorded
accepted_intent_is_recorded(inner, reference, r) == Intent(reference, r) \in inner

\* handle_error: << Option<ResourceId>, inner afterwards >>
handle_error(inner, req) ==
    LET found == { e \in inner : e.req = req }
    IN  << IF found = {} THEN Nothing ELSE Some((CHOOSE e \in found : TRUE).resource),
           inner \ found >>

-----------------------------------------------------------------------------
(* Eventloop.  The tunnel is the sequence of events it has ready; the      *)
(* portal channel is the id of its next request, the PrepareConnection     *)
(* requests the portal has not answered, and the events it has ready; the  *)
(* log upload interval is whether its tick is due.                         *)

ConnectionIntent(resource) == [ kind |-> "ConnectionIntent", resource |-> resource ]
SignalIceCandidate == [ kind |-> "SignalIceCandidate" ]
RefreshResources == [ kind |-> "RefreshResources" ]
TunnelEvents == { ConnectionIntent(r) : r \in Resources } \cup { SignalIceCandidate }

ConnectionDetails(req_id, resource) ==
    [ kind |-> "ConnectionDetails", req_id |-> req_id, resource |-> resource ]
Offline(req_id) == [ kind |-> "Offline", req_id |-> req_id ]
HeartbeatSent == [ kind |-> "HeartbeatSent" ]
Disconnect == [ kind |-> "Disconnect" ]
InitMessage == [ kind |-> "Init" ]

\* what the tunnel answers to the call a handler makes: request_connection
\* answers a request or Err; set_interface answers Err or not
RequestResults == { "NewConnection", "ReuseConnection", "Err" }

PhoenixChannel_new == [ next_id |-> 1, pending |-> {}, events |-> << >> ]

Eventloop_new ==
    [ tunnel |-> << >>,
      portal |-> PhoenixChannel_new,
      tunnel_init |-> FALSE,
      connection_intents |-> SentConnectionIntents_default,
      log_upload_interval |-> FALSE ]

\* PhoenixChannel::send: << the id of the request, the channel afterwards >>
portal_send(portal, message) ==
    << portal.next_id,
       [ portal EXCEPT !.next_id = @ + 1,
                       !.pending = IF message.kind = "PrepareConnection"
                                   THEN @ \cup { Intent(portal.next_id, message.resource) }
                                   ELSE @ ] >>

handle_tunnel_event(loop, event) ==
    IF event.kind = "ConnectionIntent"
    THEN LET sent == portal_send(loop.portal, [ kind |-> "PrepareConnection", resource |-> event.resource ])
         IN  [ loop EXCEPT !.portal = sent[2],
                           !.connection_intents = register_new_intent(@, sent[1], event.resource) ]
    ELSE [ loop EXCEPT !.portal = portal_send(@, [ kind |-> event.kind ])[2] ]

\* handle_portal_success_reply for ConnectionDetails, request_connection
\* answering result
handle_portal_success_reply(loop, event, result) ==
    LET received == handle_connection_details_received(loop.connection_intents,
                                                       event.req_id, event.resource)
        loop1 == [ loop EXCEPT !.connection_intents = received[2] ]
    IN  IF ~received[1] THEN loop1
        ELSE IF result = "Err" THEN loop1
        ELSE [ loop1 EXCEPT !.portal = portal_send(@, [ kind |-> result ])[2] ]

handle_portal_error_reply(loop, event) ==
    [ loop EXCEPT !.connection_intents = handle_error(@, event.req_id)[2] ]

\* an Init whose failure to set up the interface is only logged
handle_portal_inbound_message_logging_failure(loop, msg, result) ==
    IF msg.kind = "Init" /\ ~loop.tunnel_init /\ result # "Err"
    THEN << "Ok", [ loop EXCEPT !.tunnel_init = TRUE ] >>
    ELSE << "Ok", loop >>

\* handle_portal_inbound_message for Init: << Ok or Err, the loop
\* afterwards >>; result is what set_interface answers
handle_portal_inbound_message(loop, msg, result) ==
    IF msg.kind = "Init"
    THEN IF ~loop.tunnel_init
         THEN IF result = "Err" THEN << "Err", loop >>
              ELSE << "Ok", [ loop EXCEPT !.tunnel_init = TRUE ] >>
         ELSE << "Ok", loop >>
    ELSE << "Ok", loop >>

\* handle_portal_event: << Ok or Err, the loop afterwards >>
handle_portal_event(loop, event, result) ==
    IF event.kind = "Init"
    THEN handle_portal_inbound_message(loop, event, result)
    ELSE IF event.kind = "ConnectionDetails"
    THEN << "Ok", handle_portal_success_reply(loop, event, result) >>
    ELSE IF event.kind = "Offline" THEN << "Ok", handle_portal_error_reply(loop, event) >>
    ELSE IF event.kind = "Disconnect" THEN << "Err", loop >>
    ELSE << "Ok", loop >>

\* an iteration that looks at the portal before the tunnel
poll_iteration_portal_first(loop, result) ==
    IF loop.portal.events # << >>
    THEN LET handled == handle_portal_event(
                            [ loop EXCEPT !.portal.events = Tail(@) ],
                            Head(loop.portal.events), result)
         IN  [ source |-> "portal",
               outcome |-> IF handled[1] = "Err" THEN "Err" ELSE "continue",
               loop |-> handled[2] ]
    ELSE IF loop.tunnel # << >>
    THEN [ source |-> "tunnel", outcome |-> "continue",
           loop |-> handle_tunnel_event([ loop EXCEPT !.tunnel = Tail(@) ], Head(loop.tunnel)) ]
    ELSE IF loop.log_upload_interval
    THEN [ source |-> "log_upload_interval", outcome |-> "continue",
           loop |-> [ loop EXCEPT !.log_upload_interval = FALSE,
                                  !.portal = portal_send(@, [ kind |-> "CreateLogSink" ])[2] ] ]
    ELSE [ source |-> "none", outcome |-> "Pending", loop |-> loop ]

\* One iteration of the loop of Eventloop::poll: the source it handled, how
\* it goes on (continue, Pending, Err) and the loop afterwards.
poll_iteration(loop, result) ==
    IF loop.tunnel # << >>
    THEN [ source |-> "tunnel", outcome |-> "continue",
           loop |-> handle_tunnel_event([ loop EXCEPT !.tunnel = Tail(@) ], Head(loop.tunnel)) ]
    ELSE IF loop.portal.events # << >>
    THEN LET handled == handle_portal_event(
                            [ loop EXCEPT !.portal.events = Tail(@) ],
                            Head(loop.portal.events), result)
         IN  [ source |-> "portal",
               outcome |-> IF handled[1] = "Err" THEN "Err" ELSE "continue",
               loop |-> handled[2] ]
    ELSE IF loop.log_upload_interval
    THEN [ source |-> "log_upload_interval", outcome |-> "continue",
           loop |-> [ loop EXCEPT !.log_upload_interval = FALSE,
                                  !.portal = portal_send(@, [ kind |-> "CreateLogSink" ])[2] ] ]
    ELSE [ source |-> "none", outcome |-> "Pending", loop |-> loop ]

------------------------------------------------------------------------------
(* ClientState: the connections a client is waiting for.                    *)
(* Every resource is a CIDR resource (domain: None); an intercepted packet  *)
(* is named by the resource its destination belongs to.                     *)

Gateways == {"gateway1", "gateway2"}

\* FuturesMap::new(MAX_CONNECTION_REQUEST_DELAY, 100) and
\* StreamMap::new(Duration::from_secs(60), 100)
TIMERS_CAPACITY == 100

\* HashMap::insert and HashMap::remove
Insert(map, key, value) == [ k \in DOMAIN map \cup {key} |-> IF k = key THEN value ELSE map[k] ]

Without(map, key) == [ k \in DOMAIN map \ {key} |-> map[k] ]

\* impl Default for ClientState. other_gateway_timers counts the timers that
\* gateway_awaiting_connection_timers holds for gateways other than Gateways.
ClientState_default(others) ==
    [ awaiting_connection |-> << >>,
      awaiting_connection_timers |-> {},
      gateway_awaiting_connection |-> {},
      gateway_awaiting_connection_timers |-> {},
      other_gateway_timers |-> others,
      resources_gateways |-> << >>,
      peers |-> << >>,
      resource_ids |-> Resources ]

\* peers maps a connected gateway to the resources whose addresses it has
is_connected_to(state, resource) ==
    /\ resource \in state.resource_ids
    /\ \E gateway \in DOMAIN state.peers : resource \in state.peers[gateway]

\* an attempt that asks for a new connection although its gateway is waiting
attempt_to_reuse_connection_ignoring_pending(state, resource, gateway, expected_attempts) ==
    IF resource \notin state.resource_ids
    THEN << "UnknownResource", state >>
    ELSE IF resource \notin DOMAIN state.awaiting_connection
    THEN << "UnexpectedConnectionDetails", state >>
    ELSE IF is_connected_to(state, resource)
    THEN << "UnexpectedConnectionDetails", state >>
    ELSE
    LET received == [ state EXCEPT !.awaiting_connection[resource].response_received = TRUE ]
        routed == [ received EXCEPT
                      !.resources_gateways = Insert(@, resource, gateway) ]
    IN  IF state.awaiting_connection[resource].total_attemps # expected_attempts
        THEN << "UnexpectedConnectionDetails", received >>
        ELSE IF gateway \notin DOMAIN routed.peers
        THEN IF Cardinality(routed.gateway_awaiting_connection_timers)
                    + routed.other_gateway_timers >= TIMERS_CAPACITY
             THEN << "TooManyConnectionRequests", routed >>
             ELSE << "NewConnection",
                     [ routed EXCEPT
                         !.gateway_awaiting_connection_timers = @ \cup {gateway},
                         !.gateway_awaiting_connection = @ \cup {gateway} ] >>
        ELSE << "ReuseConnection",
                [ routed EXCEPT
                    !.peers[gateway] = @ \cup {resource},
                    !.awaiting_connection = Without(@, resource),
                    !.awaiting_connection_timers = @ \ {resource} ] >>

\* attempt_to_reuse_connection: << the error, or ReuseConnection for
\* Ok(Some(..)), or NewConnection for Ok(None); the state afterwards >>
\* an attempt that reserves the gateway before it finds the timers full
attempt_to_reuse_connection_reserving_first(state, resource, gateway, expected_attempts) ==
    IF resource \notin state.resource_ids
    THEN << "UnknownResource", state >>
    ELSE IF resource \notin DOMAIN state.awaiting_connection
    THEN << "UnexpectedConnectionDetails", state >>
    ELSE IF is_connected_to(state, resource)
    THEN << "UnexpectedConnectionDetails", state >>
    ELSE
    LET received == [ state EXCEPT !.awaiting_connection[resource].response_received = TRUE ]
        routed == [ received EXCEPT
                      !.resources_gateways = Insert(@, resource, gateway) ]
    IN  IF state.awaiting_connection[resource].total_attemps # expected_attempts
        THEN << "UnexpectedConnectionDetails", received >>
        ELSE IF gateway \in received.gateway_awaiting_connection
        THEN << "PendingConnection",
                [ received EXCEPT
                    !.awaiting_connection = Without(@, resource),
                    !.awaiting_connection_timers = @ \ {resource} ] >>
        ELSE IF gateway \notin DOMAIN routed.peers
        THEN IF Cardinality(routed.gateway_awaiting_connection_timers)
                    + routed.other_gateway_timers >= TIMERS_CAPACITY
             THEN << "TooManyConnectionRequests",
                     [ routed EXCEPT !.gateway_awaiting_connection = @ \cup {gateway} ] >>
             ELSE << "NewConnection",
                     [ routed EXCEPT
                         !.gateway_awaiting_connection_timers = @ \cup {gateway},
                         !.gateway_awaiting_connection = @ \cup {gateway} ] >>
        ELSE << "ReuseConnection",
                [ routed EXCEPT
                    !.peers[gateway] = @ \cup {resource},
                    !.awaiting_connection = Without(@, resource),
                    !.awaiting_connection_timers = @ \ {resource} ] >>

attempt_to_reuse_connection(state, resource, gateway, expected_attempts) ==
    IF resource \notin state.resource_ids
    THEN << "UnknownResource", state >>
    ELSE IF resource \notin DOMAIN state.awaiting_connection
    THEN << "UnexpectedConnectionDetails", state >>
    ELSE IF is_connected_to(state, resource)
    THEN << "UnexpectedConnectionDetails", state >>
    ELSE
    LET received == [ state EXCEPT !.awaiting_connection[resource].response_received = TRUE ]
        routed == [ received EXCEPT
                      !.resources_gateways = Insert(@, resource, gateway) ]
    IN  IF state.awaiting_connection[resource].total_attemps # expected_attempts
        THEN << "UnexpectedConnectionDetails", received >>
        ELSE IF gateway \in received.gateway_awaiting_connection
        THEN << "PendingConnection",
                [ received EXCEPT
                    !.awaiting_connection = Without(@, resource),
                    !.awaiting_connection_timers = @ \ {resource} ] >>
        ELSE IF gateway \notin DOMAIN routed.peers
        THEN IF Cardinality(routed.gateway_awaiting_connection_timers)
                    + routed.other_gateway_timers >= TIMERS_CAPACITY
             THEN << "TooManyConnectionRequests", routed >>
             ELSE << "NewConnection",
                     [ routed EXCEPT
                         !.gateway_awaiting_connection_timers = @ \cup {gateway},
                         !.gateway_awaiting_connection = @ \cup {gateway} ] >>
        ELSE << "ReuseConnection",
                [ routed EXCEPT
                    !.peers[gateway] = @ \cup {resource},
                    !.awaiting_connection = Without(@, resource),
                    !.awaiting_connection_timers = @ \ {resource} ] >>

on_connection_failed(state, resource) ==
    LET removed == [ state EXCEPT
                       !.awaiting_connection = Without(@, resource),
                       !.awaiting_connection_timers = @ \ {resource} ]
    IN  IF resource \notin DOMAIN state.resources_gateways
        THEN removed
        ELSE LET gateway == state.resources_gateways[resource]
             IN  [ removed EXCEPT
                     !.resources_gateways = Without(@, resource),
                     !.gateway_awaiting_connection = @ \ {gateway},
                     !.gateway_awaiting_connection_timers = @ \ {gateway} ]

\* on_connection_intent_ip for a destination of the CIDR resource
on_connection_intent_ip(state, resource) ==
    IF resource \in DOMAIN state.awaiting_connection THEN state
    ELSE IF resource \notin state.resource_ids THEN state
    ELSE IF Cardinality(state.awaiting_connection_timers) >= TIMERS_CAPACITY THEN state
    ELSE [ state EXCEPT
             !.awaiting_connection_timers = @ \cup {resource},
             !.awaiting_connection =
                 Insert(@, resource,
                        [ total_attemps |-> 0,
                          response_received |-> FALSE,
                          gateways |-> state.gateway_awaiting_connection
                                       \cup { state.resources_gateways[r] :
                                                r \in DOMAIN state.resources_gateways } ]) ]

\* encapsulate for a packet that is no DNS query: a packet to a resource
\* without a peer is dropped and signals the intent to connect
encapsulate(state, resource) ==
    IF is_connected_to(state, resource) THEN state
    ELSE on_connection_intent_ip(state, resource)

\* create_peer_config_for_new_connection, followed by its caller's insertion
\* of the peer of the gateway with the addresses it returned
create_peer_config_for_new_connection(state, resource, gateway) ==
    IF resource \notin state.resource_ids THEN state
    ELSE [ state EXCEPT
             !.gateway_awaiting_connection = @ \ {gateway},
             !.gateway_awaiting_connection_timers = @ \ {gateway},
             !.awaiting_connection = Without(@, resource),
             !.peers = Insert(@, gateway,
                              IF gateway \in DOMAIN @ THEN @[gateway] \cup {resource}
                              ELSE {resource}) ]

cleanup_connected_gateway(state, gateway_id) ==
    [ state EXCEPT !.peers = Without(@, gateway_id) ]

\* What a timer of the client reports as ready: the item of a gateway in
\* gateway_awaiting_connection_timers reached its 10 s, the ticker of a
\* resource ticked, or the ticker of a resource reached its 60 s.
GatewayTimeout(gateway) == [ kind |-> "GatewayTimeout", id |-> gateway ]

Tick(resource) == [ kind |-> "Tick", id |-> resource ]

TickerTimeout(resource) == [ kind |-> "TickerTimeout", id |-> resource ]

ReadyTimers(state) ==
    { GatewayTimeout(g) : g \in state.gateway_awaiting_connection_timers }
    \cup { Tick(r) : r \in state.awaiting_connection_timers }
    \cup { TickerTimeout(r) : r \in state.awaiting_connection_timers }

\* Event::ConnectionIntent
ConnectionIntentEvent(resource, connected_gateway_ids, reference) ==
    [ kind |-> "ConnectionIntent", resource |-> resource,
      connected_gateway_ids |-> connected_gateway_ids, reference |-> reference ]

\* a ticker that goes on asking after the details were received
poll_next_event_asking_again(state, ready) ==
    IF ready.kind = "GatewayTimeout"
    THEN [ event |-> Nothing,
           state |-> [ state EXCEPT
                         !.gateway_awaiting_connection_timers = @ \ {ready.id},
                         !.gateway_awaiting_connection = @ \ {ready.id} ] ]
    ELSE IF ready.kind = "TickerTimeout"
    THEN [ event |-> Nothing,
           state |-> [ state EXCEPT
                         !.awaiting_connection = Without(@, ready.id),
                         !.awaiting_connection_timers = @ \ {ready.id} ] ]
    ELSE IF ready.id \notin DOMAIN state.awaiting_connection
    THEN [ event |-> Nothing,
           state |-> [ state EXCEPT !.awaiting_connection_timers = @ \ {ready.id} ] ]
    ELSE LET reference == state.awaiting_connection[ready.id].total_attemps + 1
         IN  [ event |-> Some(ConnectionIntentEvent(
                                 ready.id,
                                 state.awaiting_connection[ready.id].gateways,
                                 reference)),
               state |-> [ state EXCEPT
                             !.awaiting_connection[ready.id].total_attemps = reference ] ]

\* The timers of poll_next_event, one ready item at a time: the event it
\* returns for the item, if any, and the state afterwards.
poll_next_event(state, ready) ==
    IF ready.kind = "GatewayTimeout"
    THEN [ event |-> Nothing,
           state |-> [ state EXCEPT
                         !.gateway_awaiting_connection_timers = @ \ {ready.id},
                         !.gateway_awaiting_connection = @ \ {ready.id} ] ]
    ELSE IF ready.kind = "TickerTimeout"
    THEN [ event |-> Nothing,
           state |-> [ state EXCEPT
                         !.awaiting_connection = Without(@, ready.id),
                         !.awaiting_connection_timers = @ \ {ready.id} ] ]
    ELSE IF ready.id \notin DOMAIN state.awaiting_connection
    THEN [ event |-> Nothing,
           state |-> [ state EXCEPT !.awaiting_connection_timers = @ \ {ready.id} ] ]
    ELSE IF state.awaiting_connection[ready.id].response_received
    THEN [ event |-> Nothing,
           state |-> [ state EXCEPT !.awaiting_connection_timers = @ \ {ready.id} ] ]
    ELSE LET reference == state.awaiting_connection[ready.id].total_attemps + 1
         IN  [ event |-> Some(ConnectionIntentEvent(
                                 ready.id,
                                 state.awaiting_connection[ready.id].gateways,
                                 reference)),
               state |-> [ state EXCEPT
                             !.awaiting_connection[ready.id].total_attemps = reference ] ]

\* What a relay answers to a request it received.
Replies(entry) ==
    LET id == entry.id
        method == entry.request.method
        authentication == { Some(Unauthorized), Some(StaleNonce) }
    IN  { Message(id, ErrorResponse, method, code, n, r, Nothing, None, None, None) :
            code \in env.codes \cap authentication,
            n \in env.nonces, r \in env.realms }
        \cup
        { Message(id, ErrorResponse, method, code, None, None, Nothing,
                  None, None, None) : code \in env.codes \ authentication }
        \cup
        IF method = ALLOCATE
        THEN { Message(id, SuccessResponse, method, Nothing, None, None, lifetime,
                       address[1], address[2], address[3]) :
                 lifetime \in env.lifetimes, address \in env.addresses }
        ELSE IF method = REFRESH
        THEN { Message(id, SuccessResponse, method, Nothing, None, None, lifetime,
                       None, None, None) : lifetime \in env.lifetimes }
        ELSE { Message(id, SuccessResponse, method, Nothing, None, None, Nothing,
                       None, None, None) }

\* The datagrams that can arrive: answers of the relay to requests it was
\* sent, an answer to a transaction that is no longer known, and a datagram
\* that is not a STUN message.
Packets ==
    UNION { Replies(entry) :
              entry \in { r \in sent_requests :
                            r.id \in wire /\ r.request.method \in env.answers } }
    \cup { Message(0, SuccessResponse, ALLOCATE, Nothing, None, None, Nothing,
                   None, None, None),
           NotStun }

Init ==
    LET a == Allocation_new("foobar", "baz", "firezone", 0)
    IN  /\ last_srflx_candidate = a.last_srflx_candidate
        /\ ip4_allocation = a.ip4_allocation
        /\ ip6_allocation = a.ip6_allocation
        /\ allocation_lifetime = a.allocation_lifetime
        /\ buffered_transmits = a.buffered_transmits
        /\ events = a.events
        /\ backoff = a.backoff
        /\ sent_requests = a.sent_requests
        /\ channel_bindings = a.channel_bindings
        /\ buffered_channel_bindings = a.buffered_channel_bindings
        /\ last_now = a.last_now
        /\ username = a.username
        /\ password = a.password
        /\ realm = a.realm
        /\ nonce = a.nonce
        /\ wire = a.wire
        /\ env \in Environments
        /\ eventloop = Eventloop_new
        /\ client = ClientState_default(0)

Refresh ==
    /\ Drained
    /\ \E credentials \in env.credentials, now \in Instants :
        /\ Timely(now)
        /\ Commit(refresh(Self, credentials[1], credentials[2], credentials[3], now))

HandleInput ==
    /\ Drained
    /\ \E now \in Instants :
        /\ Timely(now)
        /\ \E datagram \in ({RELAY} \X Packets) \cup { << OTHER_HOST, NotStun >> } :
            LET result == handle_input(Self, datagram[1], PEER1, datagram[2], now)
            IN  Commit(result[2])

HandleTimeout ==
    /\ Drained
    /\ \E now \in Instants :
        \E a \in handle_timeout(Self, now) :
            Commit(a)

BindChannel ==
    /\ Drained
    /\ \E peer \in Peers, now \in Instants :
        /\ Timely(now)
        /\ Commit(bind_channel(Self, peer, now))

Decapsulate ==
    /\ Drained
    /\ \E now \in Instants :
        /\ Timely(now)
        /\ \E channel_number \in Numbers(channel_bindings.inner) :
            Commit(decapsulate(Self, RELAY, channel_number, now))

PollTransmit ==
    /\ buffered_transmits # << >>
    /\ Commit(poll_transmit(Self))

PollEvent ==
    /\ events # << >>
    /\ Commit(poll_event(Self))

Next ==
    \/ Refresh
    \/ HandleInput
    \/ HandleTimeout
    \/ BindChannel
    \/ Decapsulate
    \/ PollTransmit
    \/ PollEvent

Spec == Init /\ [][Next]_vars

-----------------------------------------------------------------------------
(* ChannelBindings on its own, as the unit tests drive it.  The range of   *)
(* channel numbers is too long to walk from ChannelBindings::default(), so *)
(* a run starts from a table that earlier calls have left behind: some of  *)
(* the first and the last numbers are taken by channels created at 0, the  *)
(* numbers between them were freed by failed bindings, and next_channel is *)
(* where the last call to new_channel_to_peer left it.                     *)

ChannelInstants == {0, 1, CHANNEL_LIFETIME + CHANNEL_REBIND_TIMEOUT}

ChannelNumbers == {FIRST_CHANNEL, LAST_CHANNEL - 2, LAST_CHANNEL - 1}

\* Channel { peer, bound: false, bound_at: now, last_received: now }
Channel_new(number, peer, now) ==
    [ number |-> number, peer |-> peer, bound |-> FALSE,
      bound_at |-> now, last_received |-> now ]

ChannelTables ==
    { [ inner |-> { Channel_new(n, PEER1, 0) : n \in taken }, next_channel |-> next ] :
        taken \in { s \in SUBSET ChannelNumbers : Cardinality(s) <= MaxChannels },
        next \in ChannelNumbers \cup {LAST_CHANNEL} }

InitChannels ==
    LET a == Allocation_new("foobar", "baz", "firezone", 0)
    IN  /\ last_srflx_candidate = a.last_srflx_candidate
        /\ ip4_allocation = a.ip4_allocation
        /\ ip6_allocation = a.ip6_allocation
        /\ allocation_lifetime = a.allocation_lifetime
        /\ buffered_transmits = a.buffered_transmits
        /\ events = a.events
        /\ backoff = a.backoff
        /\ sent_requests = a.sent_requests
        /\ channel_bindings \in ChannelTables
        /\ buffered_channel_bindings = a.buffered_channel_bindings
        /\ last_now = a.last_now
        /\ username = a.username
        /\ password = a.password
        /\ realm = a.realm
        /\ nonce = a.nonce
        /\ wire = a.wire
        /\ env \in { e \in Environments : e.name = "channels" }
        /\ eventloop = Eventloop_new
        /\ client = ClientState_default(0)

\* a call of a ChannelBindings method at now that leaves the table as next
CommitChannels(next, now) ==
    /\ Cardinality(next.inner) <= MaxChannels
    /\ \/ next.next_channel < FIRST_CHANNEL + MaxChannels
       \/ next.next_channel > LAST_CHANNEL - MaxChannels
    /\ channel_bindings' = next
    /\ last_now' = now
    /\ UNCHANGED <<last_srflx_candidate, ip4_allocation, ip6_allocation,
                   allocation_lifetime, buffered_transmits, events, backoff,
                   sent_requests, buffered_channel_bindings, username, password,
                   realm, nonce, wire, env, eventloop, client>>

LaterChannelInstants == { now \in ChannelInstants : now >= last_now }

NewChannelToPeer ==
    \E now \in LaterChannelInstants :
        CommitChannels(new_channel_to_peer(channel_bindings, PEER1, now)[2], now)

SetConfirmed ==
    \E c \in Numbers(channel_bindings.inner), now \in LaterChannelInstants :
        CommitChannels(set_confirmed(channel_bindings, c, now), now)

TryDecode ==
    \E c \in Numbers(channel_bindings.inner), now \in LaterChannelInstants :
        CommitChannels(try_decode(channel_bindings, c, now)[2], now)

HandleFailedBinding ==
    \E c \in channel_bindings.inner :
        /\ ~c.bound
        /\ CommitChannels(handle_failed_binding(channel_bindings, c.number), last_now)

NextChannels ==
    \/ NewChannelToPeer
    \/ SetConfirmed
    \/ TryDecode
    \/ HandleFailedBinding

SpecChannels == InitChannels /\ [][NextChannels]_vars

-----------------------------------------------------------------------------
(* The event loop on its own: the tunnel and the portal make events ready, *)
(* the log upload tick falls due, and the loop runs one iteration of poll  *)
(* at a time.  The portal answers each PrepareConnection once, in any      *)
(* order, with the connection details of the resource or with an error.    *)
(* The tunnel has its interface and its resources from the first Init, and *)
(* no event before.                                                        *)

InitEventloop ==
    LET a == Allocation_new("foobar", "baz", "firezone", 0)
    IN  /\ last_srflx_candidate = a.last_srflx_candidate
        /\ ip4_allocation = a.ip4_allocation
        /\ ip6_allocation = a.ip6_allocation
        /\ allocation_lifetime = a.allocation_lifetime
        /\ buffered_transmits = a.buffered_transmits
        /\ events = a.events
        /\ backoff = a.backoff
        /\ sent_requests = a.sent_requests
        /\ channel_bindings = a.channel_bindings
        /\ buffered_channel_bindings = a.buffered_channel_bindings
        /\ last_now = a.last_now
        /\ username = a.username
        /\ password = a.password
        /\ realm = a.realm
        /\ nonce = a.nonce
        /\ wire = a.wire
        /\ env \in { e \in Environments : e.name = "channels" }
        /\ eventloop = Eventloop_new
        /\ client = ClientState_default(0)

CommitEventloop(loop) ==
    /\ loop.portal.next_id <= MaxRequestId + 1
    /\ eventloop' = loop
    /\ UNCHANGED <<allocation_vars, client>>

TunnelEvent ==
    /\ eventloop.tunnel_init
    /\ Len(eventloop.tunnel) < MaxReady
    /\ \E event \in TunnelEvents :
        CommitEventloop([ eventloop EXCEPT !.tunnel = Append(@, event) ])

PortalReply ==
    /\ Len(eventloop.portal.events) < MaxReady
    /\ \E request \in eventloop.portal.pending :
        \E event \in { ConnectionDetails(request.req, request.resource), Offline(request.req) } :
            CommitEventloop([ eventloop EXCEPT !.portal.pending = @ \ {request},
                                               !.portal.events = Append(@, event) ])

PortalEvent ==
    /\ Len(eventloop.portal.events) < MaxReady
    /\ \E event \in { HeartbeatSent, Disconnect, InitMessage } :
        CommitEventloop([ eventloop EXCEPT !.portal.events = Append(@, event) ])

LogUploadTick ==
    /\ ~eventloop.log_upload_interval
    /\ CommitEventloop([ eventloop EXCEPT !.log_upload_interval = TRUE ])

Poll ==
    /\ poll_iteration(eventloop, "Err").outcome # "Pending"
    /\ \E result \in RequestResults :
        CommitEventloop(poll_iteration(eventloop, result).loop)

NextEventloop ==
    \/ TunnelEvent
    \/ PortalReply
    \/ PortalEvent
    \/ LogUploadTick
    \/ Poll

SpecEventloop == InitEventloop /\ [][NextEventloop]_vars

------------------------------------------------------------------------------
(* A ClientState on its own: packets to resources, the details of          *)
(* connections, what becomes of the connections, and the timers.           *)

\* how many gateways other than Gateways wait for a connection at the start
OtherGateways == { 0, TIMERS_CAPACITY - 1 }

\* what request_connection is called with
DetailsResources == Resources \cup {"resource3"}

InitClient ==
    LET a == Allocation_new("foobar", "baz", "firezone", 0)
    IN  /\ last_srflx_candidate = a.last_srflx_candidate
        /\ ip4_allocation = a.ip4_allocation
        /\ ip6_allocation = a.ip6_allocation
        /\ allocation_lifetime = a.allocation_lifetime
        /\ buffered_transmits = a.buffered_transmits
        /\ events = a.events
        /\ backoff = a.backoff
        /\ sent_requests = a.sent_requests
        /\ channel_bindings = a.channel_bindings
        /\ buffered_channel_bindings = a.buffered_channel_bindings
        /\ last_now = a.last_now
        /\ username = a.username
        /\ password = a.password
        /\ realm = a.realm
        /\ nonce = a.nonce
        /\ wire = a.wire
        /\ env \in { e \in Environments : e.name = "channels" }
        /\ eventloop = Eventloop_new
        /\ \E others \in OtherGateways : client = ClientState_default(others)

CommitClient(state) ==
    /\ client' = state
    /\ UNCHANGED <<allocation_vars, eventloop>>

Encapsulate ==
    /\ client.resource_ids # {}
    /\ \E resource \in Resources : CommitClient(encapsulate(client, resource))

\* a ConnectionIntent is answered once: the details for the reference that
\* the entry of a resource has received its details for do not come again
AnsweredBefore(resource, expected) ==
    /\ resource \in DOMAIN client.awaiting_connection
    /\ client.awaiting_connection[resource].response_received
    /\ client.awaiting_connection[resource].total_attemps = expected

\* request_connection: the details of a connection arrived, in answer to a
\* ConnectionIntent with the reference expected, and its caller cleans the
\* connection up when the attempt fails
RequestConnection ==
    /\ client.resource_ids # {}
    /\ \E resource \in DetailsResources, gateway \in Gateways, expected \in 1..MaxAttempts :
        LET attempt == attempt_to_reuse_connection(client, resource, gateway, expected)
        IN  /\ ~AnsweredBefore(resource, expected)
            /\ IF attempt[1] \in { "NewConnection", "ReuseConnection" }
               THEN CommitClient(attempt[2])
               ELSE CommitClient(on_connection_failed(attempt[2], resource))

\* the gateway accepted the new connection that was requested for a resource
NewConnectionAccepted ==
    /\ DOMAIN client.resources_gateways # {}
    /\ \E resource \in DOMAIN client.resources_gateways :
        CommitClient(create_peer_config_for_new_connection(
                         client, resource, client.resources_gateways[resource]))

OnConnectionFailed ==
    /\ client.resource_ids # {}
    /\ \E resource \in Resources : CommitClient(on_connection_failed(client, resource))

CleanupConnectedGateway ==
    /\ DOMAIN client.peers # {}
    /\ \E gateway \in DOMAIN client.peers :
        CommitClient(cleanup_connected_gateway(client, gateway))

PollNextEvent(ready) ==
    /\ ready \in ReadyTimers(client)
    /\ poll_next_event(client, ready).event # Nothing
          => poll_next_event(client, ready).event[1].reference <= MaxAttempts
    /\ CommitClient(poll_next_event(client, ready).state)

Timers ==
    { GatewayTimeout(g) : g \in Gateways }
    \cup { Tick(r) : r \in Resources }
    \cup { TickerTimeout(r) : r \in Resources }

NextClient ==
    \/ Encapsulate
    \/ RequestConnection
    \/ NewConnectionAccepted
    \/ OnConnectionFailed
    \/ CleanupConnectedGateway
    \/ \E ready \in Timers : PollNextEvent(ready)

SpecClient == InitClient /\ [][NextClient]_vars

\* every timer that is ready is polled in the end
SpecClientFair == SpecClient /\ \A ready \in Timers : WF_vars(PollNextEvent(ready))

-----------------------------------------------------------------------------
(* Properties.                                                             *)

InFlight(a, method) == { r \in a.sent_requests : r.request.method = method }

AtMostOneOfEach(a) ==
    /\ Cardinality(InFlight(a, ALLOCATE)) <= 1
    /\ Cardinality(InFlight(a, REFRESH)) <= 1

\* C1: in every reachable state, whatever calls of refresh, handle_input,
\* handle_timeout and bind_channel led to it, sent_requests holds at most
\* one REFRESH request.
AtMostOneRefreshInFlight == Cardinality(InFlight(Self, REFRESH)) <= 1

\* C2: handle_timeout preserves "at most one ALLOCATE and at most one
\* REFRESH in flight": from a state where that holds, at every instant and
\* in every iteration order, it leaves a state where that holds.
HandleTimeoutKeepsOneOfEach ==
    AtMostOneOfEach(Self) =>
        \A now \in Instants : \A a \in handle_timeout(Self, now) : AtMostOneOfEach(a)

\* A REFRESH is in flight and has timed out while the refresh is due:
\* handle_timeout re-sends it and queues no second one.
TimedOutRefreshIsReplaced ==
    /\ AtMostOneOfEach(Self)
    /\ \E now \in Instants : \E a \in handle_timeout(Self, now) :
        /\ refresh_allocation_at(Self) # Nothing
        /\ now >= Unwrap(refresh_allocation_at(Self))
        /\ InFlight(Self, REFRESH) \cap timed_out_requests(Self, now) # {}
        /\ Cardinality(InFlight(a, REFRESH)) = 1
        /\ InFlight(a, REFRESH) # InFlight(Self, REFRESH)

\* C3: in every reachable state sent_requests holds at most one ALLOCATE
\* request.
AtMostOneAllocateInFlight == Cardinality(InFlight(Self, ALLOCATE)) <= 1

\* The allocation was invalidated and a new ALLOCATE is in flight.
AllocateAfterInvalidation ==
    /\ Cardinality(InFlight(Self, ALLOCATE)) = 1
    /\ \E i \in DOMAIN events : events[i].kind = "Invalid"

\* C4: in every reachable state sent_requests holds at most one
\* CHANNEL_BIND request per channel number.
AtMostOneBindPerChannel ==
    \A r1, r2 \in InFlight(Self, CHANNEL_BIND) :
        r1.request.channel = r2.request.channel => r1 = r2

\* C5: allocation_lifetime is present if and only if ip4_allocation or
\* ip6_allocation is present.
LifetimeIffAllocation == (allocation_lifetime # Nothing) <=> has_allocation(Self)

\* the allocation holds a relayed candidate of the family of peer
RelayedFamily(peer) ==
    \/ peer \in {PEER1, PEER2_IP4} /\ ip4_allocation # None
    \/ peer = PEER2_IP6 /\ ip6_allocation # None

\* C6: every CHANNEL_BIND request in flight targets a peer whose address
\* family has a relayed candidate: a bind for an IPv6 peer on an IPv4-only
\* allocation (or for an IPv4 peer on an IPv6-only one) queues nothing,
\* whether it was requested before or after the ALLOCATE response.
BindsOnlyToRelayedFamilies ==
    /\ \A r \in InFlight(Self, CHANNEL_BIND) : RelayedFamily(r.request.peer)
    /\ \A peer \in AllPeers, now \in Instants :
        (ip4_allocation # None \/ ip6_allocation # None) /\ ~RelayedFamily(peer) =>
            LET a == bind_channel(Self, peer, now)
            IN  /\ a.buffered_transmits = buffered_transmits
                /\ a.sent_requests = sent_requests

\* An IPv6 and an IPv4 peer are deferred, and the ALLOCATE success brings an
\* IPv4 address only: the drain queues a CHANNEL_BIND for the IPv4 peer only.
DeferredBindForMissingFamilyIsDropped ==
    /\ PEER2_IP6 \in SeqToSet(buffered_channel_bindings)
    /\ \E packet \in Packets :
        LET a == handle_input(Self, RELAY, PEER1, packet, last_now)[2]
        IN  /\ a.ip4_allocation # None
            /\ a.ip6_allocation = None
            /\ InFlight(a, CHANNEL_BIND) # {}
            /\ \A r \in InFlight(a, CHANNEL_BIND) : is_ipv4(r.request.peer)

\* C7: bind_channel is idempotent: for every peer and instant, a second
\* bind_channel(p, now) directly after a first one queues no transmit and
\* reserves no channel number.
BindChannelIsIdempotent ==
    \A peer \in AllPeers, now \in Instants :
        LET first == bind_channel(Self, peer, now)
            second == bind_channel(first, peer, now)
        IN  /\ second.buffered_transmits = first.buffered_transmits
            /\ second.sent_requests = first.sent_requests
            /\ second.channel_bindings = first.channel_bindings

BindTransmits(a, peer) ==
    { i \in DOMAIN a.buffered_transmits :
        /\ a.buffered_transmits[i].payload.method = CHANNEL_BIND
        /\ a.buffered_transmits[i].payload.peer = peer }

\* An ALLOCATE success the allocation accepts: it carries a LIFETIME and a
\* relayed address.
AllocateSuccesses ==
    { packet \in Packets :
        /\ packet.stun /\ packet.id \in SentIds(Self)
        /\ packet.class = SuccessResponse /\ packet.method = ALLOCATE
        /\ packet.lifetime # Nothing
        /\ (packet.relay4 # None \/ packet.relay6 # None) }

Relays(packet, peer) ==
    (is_ipv4(peer) /\ packet.relay4 # None) \/ (is_ipv6(peer) /\ packet.relay6 # None)

LastDeferral(peer) ==
    CHOOSE i \in DOMAIN buffered_channel_bindings :
        /\ buffered_channel_bindings[i] = peer
        /\ \A j \in DOMAIN buffered_channel_bindings :
            buffered_channel_bindings[j] = peer => j <= i

FirstDeferral(peer) ==
    CHOOSE i \in DOMAIN buffered_channel_bindings :
        /\ buffered_channel_bindings[i] = peer
        /\ \A j \in DOMAIN buffered_channel_bindings :
            buffered_channel_bindings[j] = peer => i <= j

\* position of the CHANNEL_BIND for peer among the transmits of a
BindPosition(a, peer) == CHOOSE i \in BindTransmits(a, peer) : TRUE

\* C9 as amended: the deferred intents are drained last in, first out: if
\* the latest deferral of p1 came before the latest deferral of p2, the
\* CHANNEL_BIND for p2 is queued, and transmitted, before the one for p1.
DeferredBindsAreDrainedLastInFirstOut ==
    ~has_allocation(Self) =>
        \A p1, p2 \in SeqToSet(buffered_channel_bindings), packet \in AllocateSuccesses :
            /\ Relays(packet, p1) /\ Relays(packet, p2)
            /\ LastDeferral(p1) < LastDeferral(p2)
            => LET a == handle_input(Self, RELAY, PEER1, packet, last_now)[2]
               IN  BindPosition(a, p2) < BindPosition(a, p1)

\* Two peers are deferred, and an ALLOCATE success that relays to both is on
\* its way.
TwoPeersDeferred ==
    /\ ~has_allocation(Self)
    /\ \E p1, p2 \in SeqToSet(buffered_channel_bindings), packet \in AllocateSuccesses :
        /\ p1 # p2
        /\ Relays(packet, p1) /\ Relays(packet, p2)

\* C9: the deferred intents are drained first in, first out: if p1 was
\* deferred before p2, the CHANNEL_BIND for p1 is queued, and transmitted,
\* before the one for p2.
DeferredBindsAreDrainedFirstInFirstOut ==
    ~has_allocation(Self) =>
        \A p1, p2 \in SeqToSet(buffered_channel_bindings), packet \in AllocateSuccesses :
            /\ Relays(packet, p1) /\ Relays(packet, p2)
            /\ FirstDeferral(p1) < FirstDeferral(p2)
            => LET a == handle_input(Self, RELAY, PEER1, packet, last_now)[2]
               IN  BindPosition(a, p1) < BindPosition(a, p2)

\* The 401 replies the relay can give now, each with the request it answers.
UnauthorizedReplies ==
    { reply \in Packets \X sent_requests :
        /\ reply[1].stun /\ reply[1].id = reply[2].id
        /\ reply[1].error = Some(Unauthorized) }

NotRetried(reply) ==
    LET result == handle_input(Self, RELAY, PEER1, reply[1], last_now)
    IN  /\ result[1] = TRUE
        /\ result[2].sent_requests = sent_requests \ {reply[2]}
        /\ result[2].buffered_transmits = buffered_transmits

\* exactly one request is queued again: the one answered, with the nonce of
\* the reply if the reply has one
RetriedOnce(reply) ==
    LET result == handle_input(Self, RELAY, PEER1, reply[1], last_now)
        resent == result[2].sent_requests \ sent_requests
    IN  /\ result[1] = TRUE
        /\ Cardinality(resent) = 1
        /\ result[2].sent_requests \ resent = sent_requests \ {reply[2]}
        /\ Len(result[2].buffered_transmits) = Len(buffered_transmits) + 1
        /\ \A r \in resent :
            /\ r.request.method = reply[2].request.method
            /\ r.request.peer = reply[2].request.peer
            /\ r.request.channel = reply[2].request.channel
            /\ reply[1].nonce # None => r.request.nonce = reply[1].nonce

RealmAccepted(reply) == reply[1].realm = None \/ reply[1].realm = realm

\* C10 as amended: a 401 reply to a request that carried a NONCE is consumed
\* (handle_input returns true) and queues no retry; a 401 reply to a request
\* without NONCE causes exactly one re-send of that request, carrying the
\* nonce of the reply, unless the reply names a REALM other than the
\* configured one: then it is consumed and nothing is re-sent.
UnauthorizedIsRetriedOnceUnlessRealmDiffers ==
    \A reply \in UnauthorizedReplies :
        IF reply[2].request.nonce # None THEN NotRetried(reply)
        ELSE IF RealmAccepted(reply) THEN RetriedOnce(reply)
        ELSE NotRetried(reply)

\* The request in flight carries the nonce the allocation adopted from an
\* earlier reply (it is the re-send of a request that carried none) and
\* the relay answers it 401 again: the reply is consumed without a retry.
UnauthorizedAfterRetry ==
    \E reply \in UnauthorizedReplies :
        /\ nonce # None
        /\ reply[2].request.nonce = nonce
        /\ NotRetried(reply)

\* C10: a 401 reply to a request that carried a NONCE is consumed
\* (handle_input returns true) and queues no retry; a 401 reply to a request
\* without NONCE causes exactly one re-send of that request, carrying the
\* nonce of the reply.
UnauthorizedIsRetriedOnce ==
    \A reply \in UnauthorizedReplies :
        IF reply[2].request.nonce # None THEN NotRetried(reply)
        ELSE RetriedOnce(reply)

-----------------------------------------------------------------------------
(* Expired credentials and suspension.                                     *)

\* the instants at which the driver may next call handle_timeout on a
LaterInstants(a) ==
    { now \in env.times : now >= a.last_now } \cup
    (IF poll_timeout(a) = Nothing THEN {} ELSE { Unwrap(poll_timeout(a)) })

\* handle_timeout queues no transmit on a, at no instant
QuietOnTimeout(a) ==
    \A now \in LaterInstants(a) : \A b \in handle_timeout(a, now) :
        b.buffered_transmits = a.buffered_transmits

\* C11: after a 401 reply to a request that carried a NONCE, whatever the
\* method of the request, the allocation is suspended and no later
\* handle_timeout queues a request.
RejectedCredentialsSuspend ==
    buffered_transmits = << >> =>
        \A reply \in UnauthorizedReplies :
            reply[2].request.nonce # None =>
                LET a == handle_input(Self, RELAY, PEER1, reply[1], last_now)[2]
                IN  is_suspended(a) /\ QuietOnTimeout(a)

-----------------------------------------------------------------------------
(* Failed refreshes.                                                       *)

\* The error replies the relay can give now to a REFRESH in flight, each
\* with the request it answers.
RefreshErrors ==
    { reply \in Packets \X InFlight(Self, REFRESH) :
        /\ reply[1].stun /\ reply[1].id = reply[2].id
        /\ reply[1].error # Nothing }

\* the Invalid events of the relayed candidates present, IPv4 before IPv6
InvalidEvents ==
    (IF ip4_allocation # None THEN << Invalid(ip4_allocation) >> ELSE << >>) \o
    (IF ip6_allocation # None THEN << Invalid(ip6_allocation) >> ELSE << >>)

\* handle_input of reply invalidates the relayed candidates, keeps the
\* server-reflexive one and queues a fresh ALLOCATE
InvalidatedAndReallocating(reply) ==
    LET a == handle_input(Self, RELAY, PEER1, reply[1], last_now)[2]
    IN  /\ a.events = events \o InvalidEvents
        /\ a.ip4_allocation = None /\ a.ip6_allocation = None
        /\ a.last_srflx_candidate = last_srflx_candidate
        /\ Cardinality(a.sent_requests) = 1
        /\ Cardinality(InFlight(a, ALLOCATE)) = 1
        /\ Len(a.buffered_transmits) = Len(buffered_transmits) + 1
        /\ a.buffered_transmits[Len(a.buffered_transmits)].payload.method = ALLOCATE

AuthenticationError(reply) ==
    reply[1].error \in { Some(Unauthorized), Some(StaleNonce) }

\* C12 as amended: after an error reply to a REFRESH in flight, other than
\* 401 Unauthorized and 438 Stale Nonce, exactly one Invalid event is
\* emitted for each relayed candidate that was present, IPv4 before IPv6,
\* none for the server-reflexive candidate, which stays current, and a
\* fresh ALLOCATE is queued.
FailedRefreshInvalidatesAndReallocates ==
    \A reply \in RefreshErrors :
        ~AuthenticationError(reply) => InvalidatedAndReallocating(reply)

\* A REFRESH of an allocation with both relayed candidates and a
\* server-reflexive one is answered with an error that is no
\* authentication error.
DualStackRefreshFails ==
    /\ ip4_allocation # None /\ ip6_allocation # None
    /\ last_srflx_candidate # None
    /\ \E reply \in RefreshErrors : ~AuthenticationError(reply)

\* C12: after any error reply to a REFRESH in flight, exactly one Invalid
\* event is emitted for each relayed candidate that was present, IPv4
\* before IPv6, none for the server-reflexive candidate, which stays
\* current, and a fresh ALLOCATE is queued.
EveryRefreshErrorInvalidatesAndReallocates ==
    \A reply \in RefreshErrors : InvalidatedAndReallocating(reply)

-----------------------------------------------------------------------------
(* Suspension.                                                             *)

\* no allocation, no request in flight, no transmit buffered, no timeout
Suspended(a) ==
    /\ a.ip4_allocation = None /\ a.ip6_allocation = None
    /\ a.sent_requests = {}
    /\ a.buffered_transmits = << >>
    /\ poll_timeout(a) = Nothing

\* b is still suspended and has no event and no deferred intent that the
\* allocation does not have now
StillSuspended(b) ==
    /\ Suspended(b)
    /\ b.events = events
    /\ b.buffered_channel_bindings = buffered_channel_bindings

\* C13: while the allocation is suspended, handle_timeout, handle_input and
\* bind_channel queue no transmit, emit no event, buffer no intent and
\* leave it suspended.
SuspendedIgnoresAllButRefresh ==
    Suspended(Self) =>
        /\ \A now \in Instants : \A b \in handle_timeout(Self, now) : StillSuspended(b)
        /\ \A now \in Instants, packet \in Packets, from \in {RELAY, OTHER_HOST} :
              StillSuspended(handle_input(Self, from, PEER1, packet, now)[2])
        /\ \A now \in Instants, peer \in AllPeers :
              StillSuspended(bind_channel(Self, peer, now))

\* The allocation is suspended while time still passes.
SuspendedBeforeTheEnd ==
    /\ Suspended(Self)
    /\ \E now \in Instants : now > last_now

\* C14: refresh called when no relayed allocation exists and no ALLOCATE is
\* in flight queues exactly one ALLOCATE and no REFRESH, at every instant,
\* also after the backoff was exhausted by timeouts.
RefreshWithoutAllocationAllocates ==
    /\ ip4_allocation = None /\ ip6_allocation = None
    /\ InFlight(Self, ALLOCATE) = {}
    => \A credentials \in Credentials, now \in Instants :
        LET a == refresh(Self, credentials[1], credentials[2], credentials[3], now)
            queued == a.sent_requests \ sent_requests
        IN  /\ Cardinality(queued) = 1
            /\ \A r \in queued : r.request.method = ALLOCATE
            /\ sent_requests \subseteq a.sent_requests
            /\ Len(a.buffered_transmits) = Len(buffered_transmits) + 1

-----------------------------------------------------------------------------
(* Retransmission.                                                         *)

\* No allocation, and one request in flight whose transmit has left and
\* whose timeout has not passed yet.
AwaitingOneReply ==
    /\ ip4_allocation = None /\ ip6_allocation = None
    /\ allocation_lifetime = Nothing
    /\ Cardinality(sent_requests) = 1
    /\ buffered_transmits = << >>
    /\ \A r \in sent_requests : last_now <= r.sent_at + r.backoff

\* b re-sent r at now, once, with the next interval of the schedule, which
\* still ends within the time the backoff allows
Retransmitted(b, r, now) ==
    /\ Cardinality(b.sent_requests) = 1
    /\ \A s \in b.sent_requests :
        /\ s.request = r.request
        /\ s.sent_at = now
        /\ s.backoff = Min(r.backoff * BACKOFF_MULTIPLIER, BACKOFF_MAX_INTERVAL)
        /\ now + s.backoff <= backoff.start_time + BACKOFF_MAX_ELAPSED
        /\ poll_timeout(b) = Some(now + s.backoff)
        /\ Len(b.buffered_transmits) = 1
        /\ b.buffered_transmits[1].payload = s.request

\* b gave up: nothing in flight, nothing to transmit, no timeout, suspended
GaveUp(b) ==
    /\ b.sent_requests = {}
    /\ b.buffered_transmits = << >>
    /\ poll_timeout(b) = Nothing
    /\ Suspended(b)

\* C15: if the relay does not answer, poll_timeout returns the instant at
\* which the pending request times out, and handle_timeout at that instant
\* either re-sends the request exactly once with the next interval of the
\* exponential schedule, or, the time of the backoff being used up, sends
\* nothing and leaves the allocation suspended with no timeout; the
\* timeouts increase and stay below a fixed instant, so the
\* retransmissions are finitely many.
UnansweredRequestIsRetriedThenGivenUp ==
    AwaitingOneReply =>
        \A r \in sent_requests :
            /\ poll_timeout(Self) = Some(r.sent_at + r.backoff)
            /\ r.backoff >= REQUEST_TIMEOUT
            /\ \A b \in handle_timeout(Self, r.sent_at + r.backoff) :
                Retransmitted(b, r, r.sent_at + r.backoff) \/ GaveUp(b)

\* A request that was already re-sent is pending, and the next timeout
\* gives up.
RetransmittedRequestIsGivenUp ==
    /\ AwaitingOneReply
    /\ \E r \in sent_requests :
        /\ r.backoff > REQUEST_TIMEOUT
        /\ \A b \in handle_timeout(Self, r.sent_at + r.backoff) : GaveUp(b)

-----------------------------------------------------------------------------
(* Refresh and expiry of the allocation.                                   *)

\* T + L / 2 for the allocation received at T with lifetime L
HalfLife ==
    Unwrap(allocation_lifetime).received_at
        + (Unwrap(allocation_lifetime).lifetime \div 2)

\* the REFRESH messages among the transmits of b that are not buffered now
NewRefreshTransmits(b) ==
    { i \in DOMAIN b.buffered_transmits :
        /\ i > Len(buffered_transmits)
        /\ b.buffered_transmits[i].payload.method = REFRESH }

\* C16: with an allocation received at T with lifetime L and nothing in
\* flight, poll_timeout returns T + L/2; handle_timeout at that instant
\* queues exactly one REFRESH, and poll_timeout is then strictly later
\* than T + L/2.
RefreshedAtHalfLife ==
    /\ allocation_lifetime # Nothing
    /\ sent_requests = {}
    /\ last_now <= HalfLife
    => /\ poll_timeout(Self) = Some(HalfLife)
       /\ \A b \in handle_timeout(Self, HalfLife) :
            /\ Cardinality(InFlight(b, REFRESH)) = 1
            /\ Cardinality(NewRefreshTransmits(b)) = 1
            /\ poll_timeout(b) # Nothing
            /\ Unwrap(poll_timeout(b)) > HalfLife

\* An allocation is held, nothing is in flight and half of its lifetime has
\* not passed.
AllocationAwaitsRefresh ==
    /\ allocation_lifetime # Nothing
    /\ ip4_allocation # None
    /\ sent_requests = {}
    /\ last_now < HalfLife

\* T + L for the allocation received at T with lifetime L
Expiry ==
    Unwrap(allocation_lifetime).received_at + Unwrap(allocation_lifetime).lifetime

\* C17: handle_timeout with now >= received_at + lifetime invalidates the
\* allocation: one Invalid event per relayed candidate present, IPv4 then
\* IPv6; channel bindings, lifetime and sent requests are cleared; no
\* request is queued and poll_timeout returns None.
ExpiredAllocationIsInvalidated ==
    allocation_lifetime # Nothing =>
        \A now \in { n \in Instants \cup {Expiry} : n >= Expiry } :
            \A b \in handle_timeout(Self, now) :
                /\ b.events = events \o InvalidEvents
                /\ b.ip4_allocation = None /\ b.ip6_allocation = None
                /\ b.channel_bindings.inner = {}
                /\ b.allocation_lifetime = Nothing
                /\ b.sent_requests = {}
                /\ b.buffered_transmits = buffered_transmits
                /\ poll_timeout(b) = Nothing

\* An allocation with both relayed candidates holds a channel and has a
\* request in flight.
DualStackAllocationInUse ==
    /\ allocation_lifetime # Nothing
    /\ ip4_allocation # None /\ ip6_allocation # None
    /\ channel_bindings.inner # {}
    /\ sent_requests # {}

\* The REFRESH requests in flight whose timeout is the next instant to
\* handle, at or after the instant the refresh became due.
UnansweredRefreshes ==
    { r \in InFlight(Self, REFRESH) :
        /\ allocation_lifetime # Nothing
        /\ r.sent_at + r.backoff >= last_now
        /\ r.sent_at + r.backoff >= HalfLife
        /\ poll_timeout(Self) = Some(r.sent_at + r.backoff) }

\* b still has a REFRESH in flight: each was in flight before or was sent
\* at now, and its timeout ends within the time the backoff allows
RefreshRetransmitted(b, now) ==
    /\ InFlight(b, REFRESH) # {}
    /\ \A s \in InFlight(b, REFRESH) :
        /\ s \in sent_requests \/ s.sent_at = now
        /\ s.sent_at + s.backoff <= backoff.start_time + BACKOFF_MAX_ELAPSED

\* b lost the allocation: Invalid was emitted once for the IPv4 and then
\* the IPv6 relayed candidate, nothing is in flight and no timeout is left
RefreshGivenUp(b) ==
    /\ InFlight(b, REFRESH) = {}
    /\ b.events = events \o InvalidEvents
    /\ b.ip4_allocation = None /\ b.ip6_allocation = None
    /\ b.allocation_lifetime = Nothing
    /\ b.sent_requests = {}
    /\ poll_timeout(b) = Nothing

-----------------------------------------------------------------------------
\* some channel number of the range is free, or taken by a channel that can
\* be rebound at now
SomeNumberIsAvailable(cb, now) ==
    \E n \in FIRST_CHANNEL..LAST_CHANNEL :
        IF n \notin Numbers(cb.inner) THEN TRUE ELSE can_rebind(Get(cb.inner, n), now)

\* C19: new_channel_to_peer(peer, now) returns none if and only if every
\* channel number from 0x4000 to 0x4FFF is taken by a channel that cannot
\* be rebound at now; when some number is free or can be rebound it returns
\* a number, wherever next_channel points.
NoneOnlyWhenEveryNumberIsTaken ==
    \A now \in LaterChannelInstants :
        (new_channel_to_peer(channel_bindings, PEER1, now)[1] = Nothing)
            <=> ~SomeNumberIsAvailable(channel_bindings, now)

-----------------------------------------------------------------------------
\* the number new_channel_to_peer returns for cb at now
HandedOut(cb, now) == new_channel_to_peer(cb, PEER1, now)[1]

\* the number at which the scan of new_channel_to_peer starts
ScanStart(cb) ==
    IF cb.next_channel = LAST_CHANNEL THEN FIRST_CHANNEL ELSE cb.next_channel

\* the channel saw no data since it was bound and is 15 minutes old at now
InactiveFor15Minutes(c, now) ==
    /\ c.last_received = c.bound_at
    /\ now - c.bound_at >= CHANNEL_LIFETIME + CHANNEL_REBIND_TIMEOUT

\* a number whose slot holds a channel is handed out only if the channel
\* shows no data since its bind and is at least 15 minutes old
HandedOutOnlyWhenInactive ==
    \A now \in LaterChannelInstants : \A c \in channel_bindings.inner :
        HandedOut(channel_bindings, now) = Some(c.number) => InactiveFor15Minutes(c, now)

\* the channel the scan starts at is handed out as soon as it is inactive and
\* 15 minutes old
HandedOutAtFifteenMinutes ==
    \A now \in LaterChannelInstants : \A c \in channel_bindings.inner :
        c.number = ScanStart(channel_bindings) /\ InactiveFor15Minutes(c, now)
            => HandedOut(channel_bindings, now) = Some(c.number)

\* a channel that is delivered data at now is not handed out afterwards
NotHandedOutAfterData ==
    \A now \in LaterChannelInstants : \A c \in channel_bindings.inner :
        LET decoded == try_decode(channel_bindings, c.number, now)
        IN  decoded[1] # None =>
                \A later \in { l \in ChannelInstants : l >= now } :
                    HandedOut(decoded[2], later) # Some(c.number)

\* C20: a channel number is handed out again only after 15 minutes of
\* inactivity: new_channel_to_peer never returns a number whose slot holds a
\* channel that has received data since its last bind or whose age is below
\* CHANNEL_LIFETIME + CHANNEL_REBIND_TIMEOUT, and a channel without activity
\* becomes reusable exactly at age 15 minutes.
RecycledOnlyAfterInactivity ==
    /\ HandedOutOnlyWhenInactive
    /\ HandedOutAtFifteenMinutes
    /\ NotHandedOutAfterData

-----------------------------------------------------------------------------
Payloads == { << >>, << 102 >>, << 102, 111 >> }

\* the instants around the end of the lifetime of a channel confirmed at T
AroundLifetime(T) ==
    { T, T + 1, T + CHANNEL_LIFETIME - 1, T + CHANNEL_LIFETIME,
      T + CHANNEL_LIFETIME + 1, T + CHANNEL_LIFETIME + CHANNEL_REBIND_TIMEOUT }

\* channel_to_peer and encode_to_vec of a hand the channel number to peer
UsableFor(a, number, peer, now) ==
    /\ channel_to_peer(a.channel_bindings, peer, now) = Some(number)
    /\ \A data \in Payloads :
        encode_to_vec(a, peer, data, now) = Some(channel_data_encode(number, data))

\* neither channel_to_peer nor encode_to_vec of a hands the number to peer
UnusableFor(a, number, peer, now) ==
    /\ channel_to_peer(a.channel_bindings, peer, now) # Some(number)
    /\ \A data \in Payloads :
        encode_to_vec(a, peer, data, now) # Some(channel_data_encode(number, data))

\* confirmed at T, the channel is usable in [T, T + 10 min) and not after
UsableDuringLifetime(a, number, peer, T) ==
    \A now \in AroundLifetime(T) :
        IF now < T + CHANNEL_LIFETIME
        THEN UsableFor(a, number, peer, now)
        ELSE UnusableFor(a, number, peer, now)

\* the successes the relay can answer to the CHANNEL_BINDs in flight
BindSuccesses ==
    { reply \in Packets \X InFlight(Self, CHANNEL_BIND) :
        /\ reply[1].stun /\ reply[1].id = reply[2].id
        /\ reply[1].class = SuccessResponse /\ reply[1].error = Nothing }

\* C21: a channel confirmed by a CHANNEL_BIND success at T is usable for
\* its peer (channel_to_peer and encode_to_vec return it) at every now in
\* [T, T + 10 min) and at no now >= T + 10 min, in the state the success
\* leaves and in every later state in which the channel still carries that
\* confirmation; a channel that is not confirmed is never usable.
ConfirmedChannelIsUsableForTenMinutes ==
    /\ \A reply \in BindSuccesses : \A T \in LaterInstants(Self) :
        LET a == handle_input(Self, RELAY, PEER1, reply[1], T)[2]
        IN  UsableDuringLifetime(a, Unwrap(reply[2].request.channel),
                                 reply[2].request.peer, T)
    /\ \A c \in channel_bindings.inner :
        \A now \in { n \in AroundLifetime(c.bound_at) : n >= last_now } :
            IF c.bound /\ now < c.bound_at + CHANNEL_LIFETIME
            THEN UsableFor(Self, c.number, c.peer, now)
            ELSE UnusableFor(Self, c.number, c.peer, now)

-----------------------------------------------------------------------------
\* the instants from last_now on at which some channel changes its state
ChannelInstantsFrom(a) ==
    { now \in {a.last_now} \cup UNION { AroundLifetime(c.bound_at) : c \in a.channel_bindings.inner } :
        now >= a.last_now }

\* encode_to_vec(peer, data, now) fed back through try_decode at now
RoundTrip(peer, data, now) ==
    LET message == encode_to_vec(Self, peer, data, now)
    IN  IF message = Nothing THEN Nothing
        ELSE try_decode_packet(channel_bindings, Unwrap(message), now)[1]

\* try_decode at now of a channel-data message that carries data on channel c
Decoded(c, data, now) ==
    try_decode_packet(channel_bindings, channel_data_encode(c.number, data), now)[1]

\* C22: a message produced by encode_to_vec(p, b, now) and fed back through
\* try_decode at now yields (p, b); and when the round trip does not succeed
\* because the channel for p is not bound at now, encode_to_vec returns none
\* and try_decode drops a message on the channel of p.
RoundTripOrDropped ==
    \A peer \in AllPeers, data \in Payloads, now \in ChannelInstantsFrom(Self) :
        IF encode_to_vec(Self, peer, data, now) # Nothing
        THEN RoundTrip(peer, data, now) = Some(<< peer, data >>)
        ELSE \A c \in channel_bindings.inner :
                c.peer = peer => Decoded(c, data, now) = Nothing

\* a confirmed channel for peer that is less than 10 minutes old at now
BoundAndAlive(peer, now) ==
    \E c \in channel_bindings.inner :
        c.peer = peer /\ c.bound /\ now - c.bound_at < CHANNEL_LIFETIME

\* C22 as amended: the round trip yields (p, b) if and only if a channel for
\* p is bound and less than 10 minutes old at now, and encode_to_vec returns
\* none otherwise; try_decode drops a message only when its channel is not
\* confirmed.
RoundTripIffBoundAndAlive ==
    /\ \A peer \in AllPeers, data \in Payloads, now \in ChannelInstantsFrom(Self) :
        IF BoundAndAlive(peer, now)
        THEN RoundTrip(peer, data, now) = Some(<< peer, data >>)
        ELSE encode_to_vec(Self, peer, data, now) = Nothing
    /\ \A c \in channel_bindings.inner, data \in Payloads, now \in ChannelInstantsFrom(Self) :
        Decoded(c, data, now) = IF c.bound THEN Some(<< c.peer, data >>) ELSE Nothing

ExpiredChannelStillDecodes ==
    \E c \in channel_bindings.inner :
        /\ c.bound
        /\ last_now >= c.bound_at + CHANNEL_LIFETIME
        /\ encode_to_vec(Self, c.peer, << 102 >>, last_now) = Nothing
        /\ Decoded(c, << 102 >>, last_now) = Some(<< c.peer, << 102 >> >>)

-----------------------------------------------------------------------------
RequestIds == 1..MaxRequestId

\* an intent for r with an id greater than R is recorded
NewerIntentRecorded(R, r) ==
    \E e \in eventloop.connection_intents : e.resource = r /\ e.req > R

\* the connection details the loop handles next
NextConnectionDetails ==
    IF eventloop.tunnel = << >> /\ eventloop.portal.events # << >>
       /\ Head(eventloop.portal.events).kind = "ConnectionDetails"
    THEN { Head(eventloop.portal.events) }
    ELSE {}

\* C23: a stale connection-details reply is refused: whenever an intent
\* (R', r) with R' > R is recorded, handle_connection_details_received(R, r)
\* returns false and leaves the table of intents unchanged, so the newer
\* intent stays live; the loop that handles such a reply keeps the table.
StaleReplyIsRefused ==
    /\ \A R \in RequestIds, r \in Resources :
        NewerIntentRecorded(R, r) =>
            handle_connection_details_received(eventloop.connection_intents, R, r)
                = << FALSE, eventloop.connection_intents >>
    /\ \A reply \in NextConnectionDetails, result \in RequestResults :
        NewerIntentRecorded(reply.req_id, reply.resource) =>
            poll_iteration(eventloop, result).loop.connection_intents
                = eventloop.connection_intents

StaleReplyArrives ==
    \E reply \in NextConnectionDetails :
        /\ Intent(reply.req_id, reply.resource) \in eventloop.connection_intents
        /\ NewerIntentRecorded(reply.req_id, reply.resource)

TunnelReady == eventloop.tunnel # << >>

PortalReady == eventloop.portal.events # << >>

LogUploadReady == eventloop.log_upload_interval

\* the portal's event queue lost its head in the iteration
PortalEventTaken(after) == Len(after.portal.events) < Len(eventloop.portal.events)

\* the tunnel's event queue lost its head in the iteration
TunnelEventTaken(after) == TunnelReady /\ after.tunnel = Tail(eventloop.tunnel)

\* the tick of the log upload interval was consumed in the iteration
LogUploadTickTaken(after) == LogUploadReady /\ ~after.log_upload_interval

Awaiting(resource) == resource \in DOMAIN client.awaiting_connection

\* C26: every entry of awaiting_connection is removed in the end (by the reuse
\* or the acceptance of a connection, by a failure, or when the timer of its
\* gateway fires), so that no resource stays awaiting for ever.
AwaitingIsEventuallyRemoved ==
    \A resource \in Resources : Awaiting(resource) ~> ~Awaiting(resource)

\* what attempt_to_reuse_connection is called with
ExpectedAttempts == 0..MaxAttempts

AttemptOutcome(resource, gateway, expected) ==
    attempt_to_reuse_connection(client, resource, gateway, expected)[1]

AfterAttempt(resource, gateway, expected) ==
    attempt_to_reuse_connection(client, resource, gateway, expected)[2]

Unknown(resource) == resource \notin client.resource_ids

\* not awaiting, already connected, or asked another number of times
Unexpected(resource, expected) ==
    \/ ~Awaiting(resource)
    \/ \E gateway \in DOMAIN client.peers : resource \in client.peers[gateway]
    \/ client.awaiting_connection[resource].total_attemps # expected

Pending(gateway) == gateway \in client.gateway_awaiting_connection

Succeeds(resource, gateway, expected) ==
    AttemptOutcome(resource, gateway, expected) \in { "NewConnection", "ReuseConnection" }

\* the timers of the gateways are full and the gateway has no peer to reuse
TimersFull(gateway) ==
    /\ gateway \notin DOMAIN client.peers
    /\ Cardinality(client.gateway_awaiting_connection_timers)
          + client.other_gateway_timers >= TIMERS_CAPACITY

\* the errors of attempt_to_reuse_connection that the claim lists
ListedErrors(resource, gateway, expected) ==
    /\ Unknown(resource)
          <=> AttemptOutcome(resource, gateway, expected) = "UnknownResource"
    /\ ~Unknown(resource) /\ Unexpected(resource, expected)
          <=> AttemptOutcome(resource, gateway, expected) = "UnexpectedConnectionDetails"
    /\ ~Unknown(resource) /\ ~Unexpected(resource, expected) /\ Pending(gateway)
          <=> AttemptOutcome(resource, gateway, expected) = "PendingConnection"
    /\ AttemptOutcome(resource, gateway, expected) = "PendingConnection"
          => /\ resource \notin DOMAIN AfterAttempt(resource, gateway, expected).awaiting_connection
             /\ resource \notin AfterAttempt(resource, gateway, expected).awaiting_connection_timers

\* C27: attempt_to_reuse_connection fails with UnknownResource for an unknown
\* resource, with UnexpectedConnectionDetails when the resource is not
\* awaiting, is connected or was asked another number of times, with
\* PendingConnection when the gateway is in gateway_awaiting_connection (the
\* entry of the resource and its ticker are then removed), and succeeds in
\* every other case.
AttemptFailsAsListedOrSucceeds ==
    \A resource \in DetailsResources, gateway \in Gateways, expected \in ExpectedAttempts :
        /\ ListedErrors(resource, gateway, expected)
        /\ ~Unknown(resource) /\ ~Unexpected(resource, expected) /\ ~Pending(gateway)
              => Succeeds(resource, gateway, expected)

\* C27 as amended: as above, except that in the other cases the attempt fails
\* with TooManyConnectionRequests when the gateway has no peer and the timers
\* of the gateways are at their capacity, and succeeds otherwise.
AttemptFailsAsListedOrForCapacity ==
    \A resource \in DetailsResources, gateway \in Gateways, expected \in ExpectedAttempts :
        /\ ListedErrors(resource, gateway, expected)
        /\ ~Unknown(resource) /\ ~Unexpected(resource, expected) /\ ~Pending(gateway)
              => IF TimersFull(gateway)
                 THEN AttemptOutcome(resource, gateway, expected) = "TooManyConnectionRequests"
                 ELSE Succeeds(resource, gateway, expected)

\* a resource waits for the details it has asked for, one gateway is waiting
\* for its connection, and the other is not but finds the timers full
DetailsForPendingAndFreeGateway ==
    \E resource \in Resources, pending \in Gateways, free \in Gateways :
        /\ Awaiting(resource)
        /\ client.awaiting_connection[resource].total_attemps > 0
        /\ ~Unexpected(resource, client.awaiting_connection[resource].total_attemps)
        /\ Pending(pending)
        /\ ~Pending(free)
        /\ TimersFull(free)

ResponseReceived(resource) ==
    Awaiting(resource) /\ client.awaiting_connection[resource].response_received

Ticking(resource) == resource \in client.awaiting_connection_timers

\* what the firing of the ticker of an awaiting resource does
TickOf(resource) ==
    LET entry == client.awaiting_connection[resource]
        polled == poll_next_event(client, Tick(resource))
    IN  IF entry.response_received
        THEN /\ polled.event = Nothing
             /\ resource \notin polled.state.awaiting_connection_timers
             /\ polled.state.awaiting_connection = client.awaiting_connection
        ELSE /\ polled.event # Nothing
             /\ polled.event[1].kind = "ConnectionIntent"
             /\ polled.event[1].resource = resource
             /\ polled.event[1].reference = entry.total_attemps + 1
             /\ polled.state.awaiting_connection[resource].total_attemps
                   = entry.total_attemps + 1
             /\ polled.state.awaiting_connection[resource].response_received = FALSE
             /\ resource \in polled.state.awaiting_connection_timers

\* an entry that has received its details keeps them, is asked for no more
\* often, and gets no new ticker
AnsweredEntryStaysQuiet(resource) ==
    ResponseReceived(resource) /\ resource \in DOMAIN client'.awaiting_connection
        => /\ client'.awaiting_connection[resource].response_received
           /\ client'.awaiting_connection[resource].total_attemps
                 = client.awaiting_connection[resource].total_attemps
           /\ resource \in client'.awaiting_connection_timers => Ticking(resource)

\* C28: while the details have not been received, each firing of the ticker
\* of a resource adds one to total_attemps and emits one ConnectionIntent
\* with the new count as its reference; once response_received is set, the
\* next firing stops the ticker and emits nothing, and no ConnectionIntent is
\* emitted for that entry any more.
TickerAsksUntilDetailsArrive ==
    [][ \A resource \in Resources :
            /\ Awaiting(resource) /\ Ticking(resource) => TickOf(resource)
            /\ ResponseReceived(resource) /\ ~Ticking(resource)
                  => \A ready \in ReadyTimers(client) : ready # Tick(resource)
            /\ AnsweredEntryStaysQuiet(resource) ]_vars

\* the details have arrived and the ticker of the resource is yet to fire,
\* while another resource is still asking
TickerFiresAfterDetails ==
    \E answered \in Resources, asking \in Resources :
        /\ ResponseReceived(answered)
        /\ Ticking(answered)
        /\ client.awaiting_connection[answered].total_attemps > 0
        /\ Awaiting(asking)
        /\ ~ResponseReceived(asking)
        /\ Ticking(asking)
        /\ client.awaiting_connection[asking].total_attemps > 0

\* ---------------------------------------------------------------------
\* Allocation::handle_input: which packets it consumes

Senders == { RELAY, OTHER_HOST }

\* the packet is a STUN message that answers a request in flight
AnswersRequest(packet) == packet.stun /\ \E r \in sent_requests : r.id = packet.id

\* the state that an input which is not consumed leaves alone
SameRequestsAndCandidates(a) ==
    /\ a.sent_requests = sent_requests
    /\ a.username = username
    /\ a.password = password
    /\ a.realm = realm
    /\ a.nonce = nonce
    /\ a.last_srflx_candidate = last_srflx_candidate
    /\ a.ip4_allocation = ip4_allocation
    /\ a.ip6_allocation = ip6_allocation
    /\ a.channel_bindings = channel_bindings
    /\ a.buffered_channel_bindings = buffered_channel_bindings
    /\ a.events = events
    /\ a.buffered_transmits = buffered_transmits

\* C29: handle_input returns true exactly for a packet from the relay that
\* is a STUN message with the transaction id of a request in sent_requests;
\* the request is then taken out, so that the same answer is not consumed a
\* second time; when it returns false the requests, credentials, candidates,
\* channels, events and transmits are as before.
ConsumedIffAnswerFromRelay ==
    \A now \in Instants, from \in Senders, packet \in Packets :
        LET result == handle_input(Self, from, PEER1, packet, now)
        IN  /\ result[1] <=> from = RELAY /\ AnswersRequest(packet)
            /\ ~result[1] => SameRequestsAndCandidates(result[2])
            /\ result[1]
                  => /\ \A r \in result[2].sent_requests : r.id # packet.id
                     /\ ~handle_input(result[2], from, PEER1, packet, now)[1]

\* an allocation that has candidates gets the answer to a request in flight,
\* and packets that answer none
AnswerAndOtherPackets ==
    /\ has_allocation(Self)
    /\ \E packet \in Packets : AnswersRequest(packet)
    /\ \E packet \in Packets : ~AnswersRequest(packet)
    /\ Instants # {}

\* ---------------------------------------------------------------------
\* Allocation: time that goes backwards

\* the instants before the latest one the allocation has seen
EarlierInstants == { now \in env.times : now < last_now }

\* C30: a call of handle_input, handle_timeout, refresh or bind_channel with
\* a now before last_now does what the call with last_now does (so that
\* nothing is recorded at a time before last_now).
EarlierNowActsAsLatestNow ==
    \A early \in EarlierInstants :
        /\ \A packet \in Packets :
              handle_input(Self, RELAY, PEER1, packet, early)
                  = handle_input(Self, RELAY, PEER1, packet, last_now)
        /\ handle_timeout(Self, early) = handle_timeout(Self, last_now)
        /\ \A credentials \in Credentials :
              refresh(Self, credentials[1], credentials[2], credentials[3], early)
                  = refresh(Self, credentials[1], credentials[2], credentials[3], last_now)
        /\ \A peer \in AllPeers :
              bind_channel(Self, peer, early) = bind_channel(Self, peer, last_now)

\* ---------------------------------------------------------------------
\* ChannelBindings::handle_failed_binding: its two debug assertions

\* the replies to a CHANNEL_BIND in flight that make handle_input call
\* handle_failed_binding, each with the channel number of its request
FailedBindings ==
    { << packet, r.request.channel[1] >> :
        packet \in { p \in Packets : p.stun /\ p.error # Nothing /\ p.method = CHANNEL_BIND },
        r \in { s \in sent_requests : s.request.channel # Nothing } }

CallsHandleFailedBinding(failed) ==
    /\ \E r \in sent_requests : r.id = failed[1].id /\ r.request.channel = << failed[2] >>
    /\ failed[1].error \notin { << Unauthorized >>, << StaleNonce >> }

\* C31: whenever a reply makes handle_input call handle_failed_binding, the
\* channel number of the request is in the table of channels and its channel
\* is not confirmed (the two debug assertions of handle_failed_binding hold).
FailedBindingIsPresentAndUnconfirmed ==
    \A failed \in FailedBindings :
        CallsHandleFailedBinding(failed)
            => /\ \E c \in channel_bindings.inner : c.number = failed[2]
               /\ \A c \in channel_bindings.inner : c.number = failed[2] => ~c.bound

\* ---------------------------------------------------------------------
\* Allocation::handle_input: a 401 or 438 from another realm

\* the replies 401 and 438 to a request in flight that name a realm other
\* than the one of the allocation
ForeignRealmReplies ==
    { packet \in Packets :
        /\ AnswersRequest(packet)
        /\ packet.error \in { << Unauthorized >>, << StaleNonce >> }
        /\ packet.realm # None
        /\ packet.realm # realm }

\* C32: a 401 or 438 whose REALM is not the realm of the allocation is
\* rejected as a whole: handle_input returns true, the request it answers
\* is taken out and not sent again, and the credentials of the allocation,
\* its nonce included, are as before.
ForeignRealmReplyIsRejectedAsAWhole ==
    \A packet \in ForeignRealmReplies, now \in Instants :
        LET result == handle_input(Self, RELAY, PEER1, packet, now)
        IN  /\ result[1]
            /\ result[2].sent_requests = { r \in sent_requests : r.id # packet.id }
            /\ result[2].buffered_transmits = buffered_transmits
            /\ result[2].username = username
            /\ result[2].password = password
            /\ result[2].realm = realm
            /\ result[2].nonce = nonce

\* ---------------------------------------------------------------------
\* Allocation: channel bindings deferred before an ALLOCATE that fails

\* the errors other than 401 and 438 that answer an ALLOCATE in flight
FailedAllocations ==
    { packet \in Packets :
        /\ AnswersRequest(packet)
        /\ packet.method = ALLOCATE
        /\ packet.error \notin { Nothing, << Unauthorized >>, << StaleNonce >> } }

\* the relayed addresses a relay can answer an ALLOCATE with
RelayedAddresses == { address \in env.addresses : address[2] # None \/ address[3] # None }

\* the allocation after the ALLOCATE failed and refresh was called
RefreshedAfter(packet, now) ==
    LET failed == handle_input(Self, RELAY, PEER1, packet, now)[2]
    IN  refresh(failed, username, password, realm, now)

\* the allocation after the ALLOCATE that the refresh sent has succeeded
AllocatedAfter(packet, request, address, now) ==
    handle_input(RefreshedAfter(packet, now), RELAY, PEER1,
                 Message(request.id, SuccessResponse, ALLOCATE, Nothing, None, None,
                         << ALLOCATION_LIFETIME >>, address[1], address[2], address[3]),
                 now)[2]

ChannelBindsOf(a) ==
    { r.request.peer : r \in { s \in a.sent_requests : s.request.method = CHANNEL_BIND } }
    \cup { a.buffered_transmits[i].payload.peer :
             i \in { j \in DOMAIN a.buffered_transmits :
                       a.buffered_transmits[j].payload.method = CHANNEL_BIND } }

\* C33: the channel bindings that were deferred when an ALLOCATE fails with
\* an error other than 401 and 438 are discarded: after a refresh and the
\* success of its ALLOCATE, whatever addresses it brings, no CHANNEL_BIND is
\* queued for them.
DeferredBindingsAreDiscarded ==
    \A packet \in FailedAllocations, now \in Instants :
        /\ handle_input(Self, RELAY, PEER1, packet, now)[2].buffered_channel_bindings = << >>
        /\ \A request \in RefreshedAfter(packet, now).sent_requests :
              request.request.method = ALLOCATE
                  => \A address \in RelayedAddresses :
                        ChannelBindsOf(AllocatedAfter(packet, request, address, now)) = {}

\* channel bindings are deferred while the ALLOCATE that is about to fail is
\* in flight, and the relay has an address of their family to give
DeferredBindingsAndFailedAllocation ==
    /\ FailedAllocations # {}
    /\ buffered_channel_bindings # << >>
    /\ \E packet \in FailedAllocations, now \in Instants :
          \E request \in RefreshedAfter(packet, now).sent_requests :
              request.request.method = ALLOCATE
    /\ \E address \in RelayedAddresses, i \in DOMAIN buffered_channel_bindings :
          IF is_ipv4(buffered_channel_bindings[i])
          THEN address[2] # None ELSE address[3] # None

\* ---------------------------------------------------------------------
\* Allocation: the candidates announced by a successful ALLOCATE

\* the successes the relay can answer an ALLOCATE in flight with, that carry
\* a LIFETIME and a relayed address
Allocations ==
    { packet \in Packets :
        /\ AnswersRequest(packet)
        /\ packet.method = ALLOCATE
        /\ packet.error = Nothing
        /\ packet.class = SuccessResponse
        /\ packet.lifetime # Nothing
        /\ packet.relay4 # None \/ packet.relay6 # None }

\* the event for a candidate of a response, given the candidate now held
Announcement(candidate, held) ==
    IF candidate # None /\ candidate # held
    THEN << [ kind |-> "New", candidate |-> candidate ] >>
    ELSE << >>

\* C34: a successful ALLOCATE emits a New event for each of its candidates
\* that is not the one held, and for no other, in the order
\* server-reflexive, IPv4 relayed, IPv6 relayed, behind the events already
\* queued; poll_event takes the events from the front of that queue.
NewCandidatesAreAnnouncedInOrder ==
    /\ \A packet \in Allocations, now \in Instants :
          handle_input(Self, RELAY, PEER1, packet, now)[2].events
              = events \o Announcement(packet.mapped, last_srflx_candidate)
                       \o Announcement(packet.relay4, ip4_allocation)
                       \o Announcement(packet.relay6, ip6_allocation)
    /\ events # << >>
          => poll_event(Self).events = [ i \in 1..(Len(events) - 1) |-> events[i + 1] ]

\* an ALLOCATE succeeds with the server-reflexive candidate the allocation
\* holds already and with relayed candidates it does not hold
KnownAndNewCandidates ==
    \E packet \in Allocations :
        /\ packet.mapped # None
        /\ packet.mapped = last_srflx_candidate
        /\ packet.relay4 # None
        /\ packet.relay4 # ip4_allocation
        /\ packet.relay6 # None

\* ---------------------------------------------------------------------
\* Allocation: channels only with an allocation, deferred bindings only
\* without one

Relayed == ip4_allocation # None \/ ip6_allocation # None

\* C35: without a relayed allocation the table of channels is empty and
\* encode_to_vec returns None for every peer; with a relayed allocation no
\* channel binding is deferred.
ChannelsOnlyWithAllocation ==
    /\ ~Relayed
          => /\ channel_bindings.inner = {}
             /\ \A peer \in AllPeers, payload \in Payloads, now \in Instants :
                   encode_to_vec(Self, peer, payload, now) = Nothing
    /\ Relayed => buffered_channel_bindings = << >>

\* an allocation with a channel is about to expire
ChannelsAreAboutToBeDropped ==
    /\ Relayed
    /\ channel_bindings.inner # {}
    /\ \E now \in Instants : \E a \in handle_timeout(Self, now) :
          a.ip4_allocation = None /\ a.ip6_allocation = None

\* ---------------------------------------------------------------------
\* Eventloop: the replies that are accepted

\* C36: whatever the order in which the replies for the intents of one
\* resource arrive, a reply that the loop accepts is for an intent that is
\* still recorded: the debug assertion of
\* handle_connection_details_received holds on every accepted reply.
AcceptedReplyIsRecorded ==
    \A reply \in NextConnectionDetails :
        handle_connection_details_received(eventloop.connection_intents,
                                           reply.req_id, reply.resource)[1]
            => accepted_intent_is_recorded(eventloop.connection_intents,
                                           reply.req_id, reply.resource)

\* ---------------------------------------------------------------------
\* Allocation: the events of the relayed candidates of one family

RELAY_ADDR2_IP4 == "RELAY_ADDR2_IP4"
RELAY_ADDR2_IP6 == "RELAY_ADDR2_IP6"
Relayed4 == { RELAY_ADDR_IP4, RELAY_ADDR2_IP4 }
Relayed6 == { RELAY_ADDR_IP6, RELAY_ADDR2_IP6 }

\* the events of evs behind the first n that are about a candidate of family
RECURSIVE EventsOf(_, _, _)
EventsOf(evs, n, family) ==
    IF Len(evs) <= n THEN << >>
    ELSE LET rest == EventsOf(Tail(evs), IF n > 0 THEN n - 1 ELSE 0, family)
         IN  IF n = 0 /\ Head(evs).candidate \in family
             THEN << Head(evs) >> \o rest ELSE rest

\* the candidate that is announced and not invalidated after the events s,
\* when held is the one before them; "twice" when s has a New while a
\* candidate is announced, or an Invalid for a candidate that is not
RECURSIVE Announced(_, _)
Announced(held, s) ==
    IF s = << >> THEN held
    ELSE IF Head(s).kind = "New"
    THEN IF held = None THEN Announced(Head(s).candidate, Tail(s)) ELSE "twice"
    ELSE IF held = Head(s).candidate THEN Announced(None, Tail(s)) ELSE "twice"

\* a handler went from the allocation of this state to a: it kept the
\* events that were queued, and what it added alternates for both families
\* and ends with the candidates that a holds
Alternating(a) ==
    /\ Len(a.events) >= Len(events)
    /\ \A i \in DOMAIN events : a.events[i] = events[i]
    /\ Announced(ip4_allocation, EventsOf(a.events, Len(events), Relayed4)) = a.ip4_allocation
    /\ Announced(ip6_allocation, EventsOf(a.events, Len(events), Relayed6)) = a.ip6_allocation

\* the successes a relay can answer an ALLOCATE in flight with, whatever
\* relayed addresses it gives
AnyAllocations ==
    { Message(r.id, SuccessResponse, ALLOCATE, Nothing, None, None,
              << ALLOCATION_LIFETIME >>, mapped, relay4, relay6) :
        r \in { s \in sent_requests : s.request.method = ALLOCATE },
        mapped \in { None, PEER1 },
        relay4 \in Relayed4 \cup { None },
        relay6 \in Relayed6 \cup { None } }

\* C37: per address family the events for relayed candidates alternate New,
\* Invalid, New, ...: whatever handler is called in whatever reachable state,
\* the events it adds have an Invalid only for the candidate that is
\* announced and held, a New only when none is, and the candidate held
\* afterwards is the one announced last and not invalidated.
RelayedCandidateEventsAlternate ==
    /\ \A packet \in Packets \cup AnyAllocations, now \in Instants :
          Alternating(handle_input(Self, RELAY, PEER1, packet, now)[2])
    /\ \A now \in Instants : \A a \in handle_timeout(Self, now) : Alternating(a)
    /\ \A now \in Instants, peer \in AllPeers : Alternating(bind_channel(Self, peer, now))
    /\ \A now \in Instants, c \in Credentials : Alternating(refresh(Self, c[1], c[2], c[3], now))

\* the New of the candidate held is still queued when the allocation
\* expires and its Invalid is queued behind it
InvalidFollowsNew ==
    /\ ip4_allocation # None
    /\ \E i \in DOMAIN events : events[i] = New(ip4_allocation)
    /\ \E now \in Instants : \E a \in handle_timeout(Self, now) :
          a.events = Append(events, Invalid(ip4_allocation))

\* a candidate is announced after the one before it was invalidated
NewFollowsInvalid ==
    /\ ip4_allocation = None
    /\ allocation_lifetime = Nothing
    /\ \E packet \in Packets, now \in Instants :
          LET a == handle_input(Self, RELAY, PEER1, packet, now)[2]
          IN  a.ip4_allocation # None /\ a.last_srflx_candidate = last_srflx_candidate
                /\ last_srflx_candidate # None

\* ---------------------------------------------------------------------
\* Allocation: a relay that answers 401 to everything

\* a 401 to the request entry of the allocation a, with any NONCE and REALM
\* the relay uses, or none
UnauthorizedTo(entry) ==
    { Message(entry.id, ErrorResponse, entry.request.method, Some(Unauthorized),
              n, r, Nothing, None, None, None) :
        n \in env.nonces, r \in env.realms }

\* C38: a request that was re-sent in response to a 401 is not re-sent
\* again in response to another 401, whether or not the replies carry a
\* NONCE: the second reply is consumed and nothing is queued.
UnauthorizedIsRetriedAtMostOnce ==
    \A reply \in UnauthorizedReplies :
        LET first == handle_input(Self, RELAY, PEER1, reply[1], last_now)[2]
        IN  \A resent \in first.sent_requests \ sent_requests :
                \A again \in UnauthorizedTo(resent) :
                    LET second == handle_input(first, RELAY, PEER1, again, last_now)
                    IN  /\ second[1] = TRUE
                        /\ second[2].sent_requests = first.sent_requests \ {resent}
                        /\ second[2].buffered_transmits = first.buffered_transmits

\* ---------------------------------------------------------------------
\* ClientState: what a failed attempt_to_reuse_connection leaves behind

UnchangingErrors == { "UnknownResource", "UnexpectedConnectionDetails", "TooManyConnectionRequests" }

\* the state that the claim lists is as before the call
ListedStateKept(after, resource) ==
    /\ after.resources_gateways = client.resources_gateways
    /\ after.gateway_awaiting_connection = client.gateway_awaiting_connection
    /\ after.gateway_awaiting_connection_timers = client.gateway_awaiting_connection_timers
    /\ after.awaiting_connection = client.awaiting_connection

\* the client with the details for the resource marked as received
MarkedReceived(resource) ==
    [ client EXCEPT !.awaiting_connection[resource].response_received = TRUE ]

\* the client with the details marked as received and the gateway recorded
\* for the resource
MarkedAndRouted(resource, gateway) ==
    [ MarkedReceived(resource) EXCEPT
        !.resources_gateways =
            [ r \in DOMAIN client.resources_gateways \cup {resource} |->
                IF r = resource THEN gateway ELSE client.resources_gateways[r] ] ]

\* C39 as claimed: an error other than PendingConnection has changed no
\* client state: resources_gateways, gateway_awaiting_connection and its
\* timers, and the awaiting entry with response_received are as before.
FailedAttemptChangesNothing ==
    \A resource \in DetailsResources, gateway \in Gateways, expected \in ExpectedAttempts :
        AttemptOutcome(resource, gateway, expected) \in UnchangingErrors
            => ListedStateKept(AfterAttempt(resource, gateway, expected), resource)

\* C39: UnknownResource, and UnexpectedConnectionDetails for a resource
\* that is not awaiting or is connected, change no client state; 
\* UnexpectedConnectionDetails for another number of attempts has only set
\* response_received of the awaiting entry; TooManyConnectionRequests has
\* only set response_received and recorded the gateway for the resource.
FailedAttemptChangesOnlyReceivedAndRoute ==
    \A resource \in DetailsResources, gateway \in Gateways, expected \in ExpectedAttempts :
        LET outcome == AttemptOutcome(resource, gateway, expected)
            after == AfterAttempt(resource, gateway, expected)
            connected == \E g \in DOMAIN client.peers : resource \in client.peers[g]
        IN  /\ outcome = "UnknownResource" => after = client
            /\ outcome = "UnexpectedConnectionDetails"
                  => IF Awaiting(resource) /\ ~connected
                     THEN after = MarkedReceived(resource)
                     ELSE after = client
            /\ outcome = "TooManyConnectionRequests"
                  => after = MarkedAndRouted(resource, gateway)

\* details that were not yet received arrive, for another number of
\* attempts or for a gateway whose timer finds no room
StaleDetailsAndFullTimers ==
    \E resource \in Resources, gateway \in Gateways :
        /\ Awaiting(resource)
        /\ ~client.awaiting_connection[resource].response_received
        /\ client.awaiting_connection[resource].total_attemps > 0
        /\ resource \notin DOMAIN client.resources_gateways
        /\ AttemptOutcome(resource, gateway, client.awaiting_connection[resource].total_attemps)
              = "TooManyConnectionRequests"
        /\ AttemptOutcome(resource, gateway, client.awaiting_connection[resource].total_attemps - 1)
              = "UnexpectedConnectionDetails"

\* ---------------------------------------------------------------------
\* Eventloop::poll: the portal events that end it

\* the portal event the loop handles next
NextPortalEvent ==
    IF eventloop.tunnel = << >> /\ eventloop.portal.events # << >>
    THEN { Head(eventloop.portal.events) }
    ELSE {}

\* C40 as claimed: handling a portal event makes poll return an error only
\* when the event is Disconnect; every other event, an Init whose interface
\* setup fails included, is handled and the loop goes on.
OnlyDisconnectEndsPoll ==
    \A event \in NextPortalEvent, result \in RequestResults :
        poll_iteration(eventloop, result).outcome
            = IF event.kind = "Disconnect" THEN "Err" ELSE "continue"

\* C40: handling a portal event makes poll return an error only when the
\* event is Disconnect or the first Init, whose interface setup fails; every
\* other inbound message, success reply or error reply is handled and the
\* loop goes on.
OnlyDisconnectAndFailedInitEndPoll ==
    \A event \in NextPortalEvent, result \in RequestResults :
        LET failed_init == event.kind = "Init" /\ ~eventloop.tunnel_init /\ result = "Err"
        IN  poll_iteration(eventloop, result).outcome
                = IF event.kind = "Disconnect" \/ failed_init THEN "Err" ELSE "continue"

\* the first Init is the portal event handled next
FirstInitArrives ==
    /\ ~eventloop.tunnel_init
    /\ \E event \in NextPortalEvent : event.kind = "Init"

====
